---- MODULE Spec2Model ----
(***************************************************************************)
(* The agent loop of core/agent.py on top of the model gateway of          *)
(* core/llm.py.                                                            *)
(*                                                                         *)
(* Python text is a sequence of one-character strings, so that substring   *)
(* tests, quoting and parsing are computed character by character.  The    *)
(* long fixed messages of the program are kept as one chunk each: no       *)
(* operation of the program looks inside them.                             *)
(* Python values are records [ty, val]; ty is the Python type, and two     *)
(* values of different type are different whatever they hold.              *)
(***************************************************************************)
EXTENDS Integers, Sequences, FiniteSets, TLC

(***************************************************************************)
(* Bounds of the model.                                                    *)
(***************************************************************************)
\* number of requests to the chat-completion service in one behaviour
MaxCalls == 4
\* depth of nested child agents below the root agent
MaxDepth == 1
\* chat-completion requests per behaviour of the scenario specification
MaxScenarioCalls == 6
\* chat-completion requests of one chat session
MaxRequests == 2
\* tool calls the model asks for in one chat session
MaxToolCalls == 3
\* tool calls the solver tool server answers in one behaviour
MaxServerCalls == 4
\* messages of a history handed to the summarizer
MaxMessages == 5
\* the largest small number of models a test asks for
MaxNumModels == 12
\* requests after which the models stop stalling: the main model answers
\* with a decision that ends the chain, the oracles answer yes
MaxPatience == 3
\* chat-completion requests per behaviour of the registry specification
MaxRegistryCalls == 6

(***************************************************************************)
(* Text.                                                                   *)
(***************************************************************************)
SQ == "'"
DQ == "\""
Quotes == {SQ, DQ}
DigitChars == {"0", "1", "2", "3", "4", "5", "6", "7", "8", "9"}
LowerChars == {"a", "b", "c", "d", "e", "f", "g", "h", "i", "j", "k", "l", "m",
               "n", "o", "p", "q", "r", "s", "t", "u", "v", "w", "x", "y", "z"}
UpperChars == {"A", "B", "C", "D", "E", "F", "G", "H", "I", "J", "K", "L", "M",
               "N", "O", "P", "Q", "R", "S", "T", "U", "V", "W", "X", "Y", "Z"}

DigitVal(c) ==
    CASE c = "0" -> 0 [] c = "1" -> 1 [] c = "2" -> 2 [] c = "3" -> 3
      [] c = "4" -> 4 [] c = "5" -> 5 [] c = "6" -> 6 [] c = "7" -> 7
      [] c = "8" -> 8 [] c = "9" -> 9

DigitChar(d) ==
    CASE d = 0 -> "0" [] d = 1 -> "1" [] d = 2 -> "2" [] d = 3 -> "3"
      [] d = 4 -> "4" [] d = 5 -> "5" [] d = 6 -> "6" [] d = 7 -> "7"
      [] d = 8 -> "8" [] d = 9 -> "9"

\* str.lower() on one character
LowerChar(c) ==
    CASE c = "A" -> "a" [] c = "B" -> "b" [] c = "C" -> "c" [] c = "D" -> "d"
      [] c = "E" -> "e" [] c = "F" -> "f" [] c = "G" -> "g" [] c = "H" -> "h"
      [] c = "I" -> "i" [] c = "J" -> "j" [] c = "K" -> "k" [] c = "L" -> "l"
      [] c = "M" -> "m" [] c = "N" -> "n" [] c = "O" -> "o" [] c = "P" -> "p"
      [] c = "Q" -> "q" [] c = "R" -> "r" [] c = "S" -> "s" [] c = "T" -> "t"
      [] c = "U" -> "u" [] c = "V" -> "v" [] c = "W" -> "w" [] c = "X" -> "x"
      [] c = "Y" -> "y" [] c = "Z" -> "z" [] OTHER -> c

\* str.lower()
Lower(t) == [i \in 1..Len(t) |-> LowerChar(t[i])]

\* needle in hay
Contains(hay, needle) ==
    \E i \in 1..(Len(hay) + 1 - Len(needle)) :
        SubSeq(hay, i, i + Len(needle) - 1) = needle

\* the decimal digits of a natural number
RECURSIVE Digits(_)
Digits(n) == IF n < 10 THEN <<DigitChar(n)>>
             ELSE Append(Digits(n \div 10), DigitChar(n % 10))

\* the natural number written by a sequence of digits
RECURSIVE Number(_)
Number(t) == IF t = <<>> THEN 0
             ELSE 10 * Number(SubSeq(t, 1, Len(t) - 1)) + DigitVal(t[Len(t)])

AllIn(t, S) == t # <<>> /\ \A i \in 1..Len(t) : t[i] \in S

(***************************************************************************)
(* Python values.                                                          *)
(***************************************************************************)
PyText(t) == [ty |-> "str", val |-> t]
PyInt(n) == [ty |-> "int", val |-> n]
NoneValue == [ty |-> "NoneType", val |-> 0]
PyBool(b) == [ty |-> "bool", val |-> b]
List(xs) == [ty |-> "list", val |-> xs]
Tuple(xs) == [ty |-> "tuple", val |-> xs]
\* a dict is its sequence of <<key text, value>> items in insertion order
Dict(items) == [ty |-> "dict", val |-> items]
\* a raised exception of class cls with str(e) = msg
Exc(cls, msg) == [ty |-> "exc", val |-> [cls |-> cls, msg |-> msg]]

IsExc(v) == v.ty = "exc"
\* the classes that "except Exception" catches
ExceptionClasses == {"SyntaxError", "NameError", "TypeError", "KeyError",
                     "AttributeError", "ZeroDivisionError", "APIError",
                     "JSONDecodeError", "RuntimeError", "FileNotFoundError",
                     "TimeoutExpired", "ValueError", "EOFError"}
Caught(v) == IsExc(v) /\ v.val.cls \in ExceptionClasses
\* SystemExit and KeyboardInterrupt pass through "except Exception"
Escapes(v) == IsExc(v) /\ v.val.cls \notin ExceptionClasses

\* equality of Python values: the type first, then the value
PyEq(a, b) == a.ty = b.ty /\ a.val = b.val

\* repr() of a str: single quotes unless the text holds a single quote and
\* no double quote; a single quote inside single quotes is escaped
RECURSIVE EscapeSQ(_)
EscapeSQ(t) ==
    IF t = <<>> THEN <<>>
    ELSE (IF Head(t) = SQ THEN <<"\\", SQ>> ELSE <<Head(t)>>) \o EscapeSQ(Tail(t))

ReprText(t) ==
    IF (\E i \in 1..Len(t) : t[i] = SQ) /\ ~(\E i \in 1..Len(t) : t[i] = DQ)
    THEN <<DQ>> \o t \o <<DQ>>
    ELSE <<SQ>> \o EscapeSQ(t) \o <<SQ>>

\* ", ".join(parts)
RECURSIVE JoinComma(_)
JoinComma(parts) ==
    IF parts = <<>> THEN <<>>
    ELSE IF Len(parts) = 1 THEN parts[1]
    ELSE parts[1] \o <<",", " ">> \o JoinComma(Tail(parts))

\* repr() of a str, an int, None, and of a list or tuple of those
RECURSIVE Repr(_)
Repr(v) ==
    CASE v.ty = "str" -> ReprText(v.val)
      [] v.ty = "int" -> Digits(v.val)
      [] v.ty = "NoneType" -> <<"N", "o", "n", "e">>
      [] v.ty = "list" ->
            <<"[">> \o JoinComma([i \in 1..Len(v.val) |-> Repr(v.val[i])]) \o <<"]">>
      [] v.ty = "tuple" ->
            <<"(">> \o JoinComma([i \in 1..Len(v.val) |-> Repr(v.val[i])])
                  \o (IF Len(v.val) = 1 THEN <<",">> ELSE <<>>) \o <<")">>

\* str(): a str is itself, an exception is its message, the rest is repr()
PyStr(v) ==
    CASE v.ty = "str" -> v.val
      [] v.ty = "exc" -> v.val.msg
      [] OTHER -> Repr(v)

(***************************************************************************)
(* eval() of a text, for the expressions                                   *)
(*     'text'  "text"  digits  digits/0  name  exit()  print(digits)       *)
(*     {"key": value, ...}   with value a quoted text or digits            *)
(* (quoted texts without escapes).  Every other text of the model is not   *)
(* an expression and raises SyntaxError.                                   *)
(***************************************************************************)
SyntaxErrorMsg == <<"invalid syntax (<string>, line 1)">>
ZeroDivisionMsg == <<"division by zero">>
NameErrorMsg(name) == <<"name '">> \o name \o <<"' is not defined">>
EvalTypeErrorMsg == <<"eval() arg 1 must be a string, bytes or code object">>

\* the index of the first c in t at or after i, 0 if there is none
Find(t, c, i) ==
    LET at == {j \in i..Len(t) : t[j] = c}
    IN  IF at = {} THEN 0 ELSE CHOOSE j \in at : \A k \in at : j <= k

\* the first index at or after i that holds no blank
RECURSIVE SkipBlanks(_, _)
SkipBlanks(t, i) == IF i <= Len(t) /\ t[i] = " " THEN SkipBlanks(t, i + 1) ELSE i

\* the first index at or after i that holds no digit
RECURSIVE SkipDigits(_, _)
SkipDigits(t, i) == IF i <= Len(t) /\ t[i] \in DigitChars THEN SkipDigits(t, i + 1) ELSE i

NoParse == [ok |-> FALSE, value |-> NoneValue, next |-> 0]

\* a quoted text starting at i
ParseStrAt(t, i) ==
    IF i <= Len(t) /\ t[i] \in Quotes
    THEN LET j == Find(t, t[i], i + 1)
         IN  IF j = 0 THEN NoParse
             ELSE [ok |-> TRUE, value |-> PyText(SubSeq(t, i + 1, j - 1)), next |-> j + 1]
    ELSE NoParse

\* digits starting at i
ParseIntAt(t, i) ==
    LET j == SkipDigits(t, i)
    IN  IF j > i
        THEN [ok |-> TRUE, value |-> PyInt(Number(SubSeq(t, i, j - 1))), next |-> j]
        ELSE NoParse

ParseAtomAt(t, i) ==
    IF i <= Len(t) /\ t[i] \in Quotes THEN ParseStrAt(t, i) ELSE ParseIntAt(t, i)

\* the items of a dict display from i on, up to the closing brace that ends t
RECURSIVE ParseItems(_, _, _)
ParseItems(t, i, acc) ==
    LET k == ParseStrAt(t, i)
        c == SkipBlanks(t, k.next)
        v == ParseAtomAt(t, SkipBlanks(t, c + 1))
        e == SkipBlanks(t, v.next)
    IN  IF ~k.ok \/ c > Len(t) \/ t[c] # ":" \/ ~v.ok \/ e > Len(t) THEN NoParse
        ELSE IF t[e] = "}" /\ e = Len(t)
             THEN [ok |-> TRUE, value |-> Dict(Append(acc, <<k.value.val, v.value>>)),
                   next |-> e + 1]
        ELSE IF t[e] = ","
             THEN ParseItems(t, SkipBlanks(t, e + 1), Append(acc, <<k.value.val, v.value>>))
        ELSE NoParse

SyntaxError == Exc("SyntaxError", SyntaxErrorMsg)

\* 'text' or "text"
EvalStrLiteral(t) ==
    LET p == ParseStrAt(t, 1)
    IN  IF p.ok /\ p.next = Len(t) + 1 THEN p.value ELSE SyntaxError

\* digits, or digits/digits with a divisor that is zero
EvalNumber(t) ==
    LET j == SkipDigits(t, 1)
    IN  IF j = Len(t) + 1 THEN PyInt(Number(t))
        ELSE IF /\ t[j] = "/"
                /\ AllIn(SubSeq(t, j + 1, Len(t)), DigitChars)
                /\ Number(SubSeq(t, j + 1, Len(t))) = 0
             THEN Exc("ZeroDivisionError", ZeroDivisionMsg)
        ELSE SyntaxError

IsExitCall(t) == t = <<"e", "x", "i", "t", "(", ")">>
IsPrintCall(t) ==
    /\ Len(t) > 7
    /\ SubSeq(t, 1, 6) = <<"p", "r", "i", "n", "t", "(">>
    /\ t[Len(t)] = ")"
    /\ AllIn(SubSeq(t, 7, Len(t) - 1), DigitChars)

\* a name that is not bound, exit() or print(digits)
EvalName(t) ==
    IF AllIn(t, LowerChars \cup UpperChars \cup {"_"})
    THEN Exc("NameError", NameErrorMsg(t))
    ELSE IF IsExitCall(t) THEN Exc("SystemExit", <<"N", "o", "n", "e">>)
    ELSE IF IsPrintCall(t) THEN NoneValue
    ELSE SyntaxError

\* {} or {"key": value, ...}
EvalDictDisplay(t) ==
    IF t = <<"{", "}">> THEN Dict(<<>>)
    ELSE LET p == ParseItems(t, 2, <<>>)
         IN  IF p.ok THEN p.value ELSE SyntaxError

PyEval(t) ==
    IF t = <<>> THEN SyntaxError
    ELSE CASE t[1] \in Quotes -> EvalStrLiteral(t)
           [] t[1] \in DigitChars -> EvalNumber(t)
           [] t[1] \in LowerChars \cup UpperChars \cup {"_"} -> EvalName(t)
           [] t[1] = "{" -> EvalDictDisplay(t)
           [] OTHER -> SyntaxError

\* what evaluating t writes to sys.stdout
Printed(t) == IF IsPrintCall(t) THEN SubSeq(t, 7, Len(t) - 1) \o <<"\n">> ELSE <<>>

\* eval(x) of any value: only a str is evaluated
EvalValue(v) == IF v.ty = "str" THEN PyEval(v.val) ELSE Exc("TypeError", EvalTypeErrorMsg)

\* d[key]
RECURSIVE Lookup(_, _, _)
Lookup(items, key, i) ==
    IF i = 0 THEN Exc("KeyError", ReprText(key))
    ELSE IF items[i][1] = key THEN items[i][2] ELSE Lookup(items, key, i - 1)

Subscript(v, key) ==
    CASE v.ty = "dict" -> Lookup(v.val, key, Len(v.val))
      [] v.ty = "str" -> Exc("TypeError", <<"string indices must be integers, not 'str'">>)
      [] v.ty = "list" -> Exc("TypeError", <<"list indices must be integers or slices, not str">>)
      [] OTHER -> Exc("TypeError", <<SQ>> \o <<v.ty>> \o <<"' object is not subscriptable">>)

(***************************************************************************)
(* The Model Gateway: class LLM of core/llm.py.                            *)
(***************************************************************************)
Message(role, content) == [role |-> role, content |-> content]

\* LLM.__init__: the history starts with the system message
LLM(initial_prompt) == <<Message("system", PyText(initial_prompt))>>

\* What the chat-completion request does: it answers with a text
\* (ok, content) or it raises (not ok, content = str(e)).
Reply(content) == [ok |-> TRUE, content |-> content]
Failure == [ok |-> FALSE, content |-> <<"Connection error.">>]

LLMErrorText(e) == <<"[LLM error: ">> \o e \o <<"]">>

\* a gateway that records the error text as the model's reply
generate_response_RecordsError(history, outcome) ==
    IF outcome.ok
    THEN [history |-> Append(history, Message("assistant", PyText(outcome.content))),
          answer |-> outcome.content]
    ELSE [history |-> Append(history, Message("assistant", PyText(LLMErrorText(outcome.content)))),
          answer |-> LLMErrorText(outcome.content)]

\* LLM.generate_response: the reply is appended to the history; a failed
\* request appends nothing and yields the error text
generate_response(history, outcome) ==
    IF outcome.ok
    THEN [history |-> Append(history, Message("assistant", PyText(outcome.content))),
          answer |-> outcome.content]
    ELSE [history |-> history, answer |-> LLMErrorText(outcome.content)]

\* the dict LLM.ask returns when eval(answer) raises
ErrorDict(e, answer) ==
    Dict(<< <<<<"m", "e", "s", "s", "a", "g", "e", "s">>,
              List(<< Dict(<< <<<<"r", "e", "c", "i", "p", "i", "e", "n", "t">>,
                                PyText(<<"s", "e", "l", "f">>)>>,
                              <<<<"c", "o", "n", "t", "e", "n", "t">>,
                                PyText(<<"[Error evaluating response: ">> \o PyStr(e)
                                       \o <<" - ">> \o answer \o <<"]">>)>> >>) >>)>> >>)

\* LLM.ask(msg): msg becomes the content of ONE message of role "user",
\* then the reply is evaluated; ret is the value returned, or the exception
\* that leaves ask
\* try: return eval(answer) except Exception: return {...}
EvalAnswer(v, answer) == IF Caught(v) THEN ErrorDict(v, answer) ELSE v

\* the history after generate_response and the value LLM.ask returns
AskResult(g) == [history |-> g.history, ret |-> EvalAnswer(PyEval(g.answer), g.answer)]

LLM_ask(history, msg, outcome) ==
    AskResult(generate_response(Append(history, Message("user", msg)), outcome))

(***************************************************************************)
(* The agent: class Agent of core/agent.py.                                *)
(***************************************************************************)
\* main.py: the name of the root agent
AgentName == <<"g", "e", "n", "e", "r", "a", "l", "_", "r", "e", "a", "s", "o", "n",
               "i", "n", "g", "_", "a", "g", "e", "n", "t">>
\* the agent name the model uses when it delegates
HelperName == <<"a", "g", "e", "n", "t", "_", "h", "e", "l", "p", "e", "r">>

RECIPIENT == <<"r", "e", "c", "i", "p", "i", "e", "n", "t">>
CONTENT == <<"c", "o", "n", "t", "e", "n", "t">>
SELF == <<"s", "e", "l", "f">>
CALLER == <<"c", "a", "l", "l", "e", "r">>
CLEAR == <<"c", "l", "e", "a", "r">>
PYTHON_EVAL == <<"p", "y", "t", "h", "o", "n", "_", "e", "v", "a", "l">>
PYTHON_EXEC == <<"p", "y", "t", "h", "o", "n", "_", "e", "x", "e", "c">>
YES == <<"y", "e", "s">>

reset == "\\033[0m"
\* agent_color: COLORS[md5(agent_name) % 10], tabulated for the two names
agent_color(agent_name) ==
    CASE agent_name = AgentName -> "\\033[36m"
      [] agent_name = HelperName -> "\\033[36m"

\* Agent.long_name of the agent with path id (the names from the root down)
RECURSIVE long_name(_)
long_name(id) ==
    LET own == <<agent_color(id[Len(id)])>> \o id[Len(id)] \o <<reset>>
    IN  IF Len(id) = 1 THEN own
        ELSE long_name(SubSeq(id, 1, Len(id) - 1)) \o <<".">> \o own

\* AGENT_DESCRIPTION with the name, the parents and the functions filled in
Description(id) ==
    <<"You are an agent in a multi agent system. Your name is ">> \o id[Len(id)]
    \o <<" and your parents are: ">>
    \o (IF Len(id) = 1 THEN <<>> ELSE long_name(SubSeq(id, 1, Len(id) - 1)))
    \o <<". [...] The following python functions are available: [...]">>

FinishedPrompt ==
    <<"Given a task and an answer to the task, answer YES if question/task was accomplished, answer NO if not.">>
NewTaskPrompt ==
    <<"Compare the two given tasks and answer YES is the task is semantically different.">>

\* Agent.__init__: three gateways and an empty child registry
NewAgent(id) ==
    [llm |-> LLM(Description(id)),
     llm_finished |-> LLM(FinishedPrompt),
     llm_new_task |-> LLM(NewTaskPrompt),
     agents |-> {}]

\* a (text, role) pair
Turn(text, role) == Tuple(<<PyText(text), PyText(<<role>>)>>)

\* "yes" in answer.lower(): True or False, or the exception raised (only a
\* str has the method lower)
YesIn(answer) ==
    IF IsExc(answer) THEN answer
    ELSE IF answer.ty = "str" THEN PyBool(Contains(Lower(answer.val), YES))
    ELSE Exc("AttributeError", <<SQ>> \o <<answer.ty>> \o <<"' object has no attribute 'lower'">>)

\* the gateway's new history and the oracle's verdict
Verdict(r) == [history |-> r.history, ret |-> YesIn(r.ret)]

\* the list m of Agent.task_completed
CompletedTurns(task, answers) ==
    List(<<Turn(task, "user")>> \o [i \in 1..Len(answers) |-> Turn(answers[i], "assistant")])

\* Agent.task_completed on gateway history h: the new history and the
\* verdict, True or False or the exception raised
task_completed(h, task, answers, outcome) ==
    Verdict(LLM_ask(h, CompletedTurns(task, answers), outcome))

\* Agent.task_differs
task_differs(h, task, other_task, outcome) ==
    Verdict(LLM_ask(h, List(<<Turn(task, "user"), Turn(other_task, "assistant")>>), outcome))

\* a handler that reports the error but not the text that failed
ErrorTurn_WithoutContent(name, what, v, content) ==
    Turn(<<agent_color(name), "[Error ", what, " python function: ">>
         \o PyStr(v) \o <<"]", reset>>, "assistant")

\* the message_to_self of python_eval (what = "evaluating") and python_exec
\* (what = "executing") when the evaluation raised v
ErrorTurn(name, what, v, content) ==
    Turn(<<agent_color(name), "[Error ", what, " python function: ">>
         \o PyStr(v) \o <<" - ">> \o content \o <<"]", reset>>, "assistant")

\* the message_to_self of python_eval when eval(content) gave v
EvalTurn(name, content, v) ==
    IF Escapes(v) THEN v
    ELSE IF Caught(v) THEN ErrorTurn(name, "evaluating", v, content)
    ELSE Turn(PyStr(v), "assistant")

\* Agent.python_eval: the self-message, or the exception that escapes
python_eval(name, content) == EvalTurn(name, content, PyEval(content))

\* response = output if not error else f"{output}\n[stderr]: {error}"
ExecResponse(output, error) ==
    IF error = <<>> THEN output ELSE output \o <<"\n", "[stderr]: ">> \o error

\* the message_to_self of python_exec when exec(content) gave v
ExecTurn(name, content, v) ==
    IF Escapes(v) THEN v
    ELSE IF Caught(v) THEN ErrorTurn(name, "executing", v, content)
    ELSE Turn(ExecResponse(Printed(content), <<>>), "assistant")

\* Agent.python_exec: the self-message, or the exception that escapes; the
\* scripts of the model write nothing to sys.stderr
python_exec(name, content) == ExecTurn(name, content, PyEval(content))

CorrectionTurn(e) ==
    Turn(<<"Please return a dictionary with the messages, error: ">> \o PyStr(e), "user")

NotCompleteMsg ==
    <<"The task is not complete. Try harder and find answers yourself. Make a plan, use the internet, delegate tasks.",
      " Dont go in circles.">>

SkipTurn(name, recipient) ==
    Turn(<<agent_color(name), "Skipping message to ">> \o recipient
         \o <<" as it is not a new task. Do it yourself.", reset>>, "user")

\* str(messages_to_caller)
CallerResult(messages_to_caller) ==
    PyText(Repr(List([i \in 1..Len(messages_to_caller) |-> PyText(messages_to_caller[i])])))

(***************************************************************************)
(* What the model may answer.                                              *)
(***************************************************************************)
\* the reply format the system prompt asks for
DecisionText(recipient, content) ==
    <<"{", DQ>> \o RECIPIENT \o <<DQ, ":", " ", DQ>> \o recipient \o <<DQ, ",", " ", DQ>>
    \o CONTENT \o <<DQ, ":", " ", DQ>> \o content \o <<DQ, "}">>

\* the same text as a Python string literal
Quoted(t) == <<SQ>> \o t \o <<SQ>>

Hi == <<"h", "i">>
DivByZero == <<"1", "/", "0">>
PrintSeven == <<"p", "r", "i", "n", "t", "(", "7", ")">>
ExitCall == <<"e", "x", "i", "t", "(", ")">>
Garbage == <<"o", "o", "p", "s", "(">>
SubTask == <<"s", "u", "b">>

\* replies of the agent's main model; an agent at depth MaxDepth is not
\* offered the replies that delegate
MainReplies(depth) ==
    { Reply(Garbage),
      Reply(DecisionText(SELF, Hi)),
      Reply(Quoted(DecisionText(SELF, Hi))),
      Reply(Quoted(DecisionText(CALLER, Hi))),
      Reply(Quoted(DecisionText(CLEAR, Hi))),
      Reply(Quoted(DecisionText(PYTHON_EVAL, DivByZero))),
      Reply(Quoted(DecisionText(PYTHON_EVAL, ExitCall))),
      Reply(Quoted(DecisionText(PYTHON_EXEC, DivByZero))),
      Reply(Quoted(DecisionText(PYTHON_EXEC, PrintSeven))),
      Reply(Quoted(DecisionText(AgentName, Hi))),
      Reply(Quoted(<<"4", "2">>)),
      Reply(Quoted(<<"{", DQ>> \o RECIPIENT \o <<DQ, ":", " ", DQ>> \o SELF \o <<DQ, "}">>)),
      Failure }
    \cup (IF depth <= MaxDepth
          THEN {Reply(Quoted(DecisionText(HelperName, SubTask)))}
          ELSE {})

\* replies of the two oracle models
OracleReplies ==
    { Reply(Quoted(<<"Y", "e", "s", ",", " ", "d", "o", "n", "e", ".">>)),
      Reply(Quoted(<<"n", "o">>)),
      Reply(<<"Y", "E", "S">>),
      Failure }

Tasks == { <<"e", "c", "h", "o">> }

(***************************************************************************)
(* The chat session: class ChatSession of asp_llm/chat_session.py with the *)
(* LLMClient of asp_mcp_client/llm_client.py, whose constructor is the one *)
(* ChatSession.start calls.  The tool servers, the console and the model   *)
(* are the session's environment.                                          *)
(***************************************************************************)
\* json.loads of the arguments of a tool call: an object of string members,
\* or JSONDecodeError
JsonLoads(t) ==
    IF t # <<>> /\ t[1] = "{" /\ SQ \notin {t[i] : i \in 1..Len(t)} /\ ~IsExc(EvalDictDisplay(t))
    THEN EvalDictDisplay(t)
    ELSE Exc("JSONDecodeError",
             <<"Expecting property name enclosed in double quotes: line 1 column 2 (char 1)">>)

\* json.dumps({"error": text})
JsonDumpsError(text) == <<"{", DQ, "error", DQ, ":", " ", DQ>> \o text \o <<DQ, "}">>

\* the tools each server of self.servers lists, in the order of the list
ServerTools == << {<<"check">>}, {<<"solve">>} >>
\* self.io.input_io_tool_name()
InputToolName == <<"get_user_input">>

\* the first server that lists the tool, 0 if none does
FindServer(tool_name) ==
    IF \E k \in 1..Len(ServerTools) : tool_name \in ServerTools[k]
    THEN CHOOSE k \in 1..Len(ServerTools) :
            /\ tool_name \in ServerTools[k]
            /\ \A j \in 1..(k - 1) : tool_name \notin ServerTools[j]
    ELSE 0

\* what self.io.get_input does: it returns a line or the user interrupts
KeyboardInterrupt == Exc("KeyboardInterrupt", <<>>)
\* what server.execute_tool does: it returns a result, it raises, or the
\* user interrupts it
ToolOutcomes == { PyText(<<"SAT">>), Exc("RuntimeError", <<"solver failed">>),
                  KeyboardInterrupt }
UserInputs == { PyText(<<"go on">>), KeyboardInterrupt }

Key(k) == <<k>>
UserMessage(content) ==
    Dict(<< <<Key("role"), PyText(<<"user">>)>>, <<Key("content"), PyText(content)>> >>)
SystemMessage(content) ==
    Dict(<< <<Key("role"), PyText(<<"system">>)>>, <<Key("content"), PyText(content)>> >>)
ToolMessage(tool_call_id, content) ==
    Dict(<< <<Key("role"), PyText(<<"tool">>)>>,
            <<Key("tool_call_id"), PyText(tool_call_id)>>,
            <<Key("content"), PyText(content)>> >>)

\* message.model_dump() of the assistant message of a response
ToolCallDump(tool_call) ==
    Dict(<< <<Key("id"), PyText(tool_call.id)>>,
            <<Key("function"), Dict(<< <<Key("name"), PyText(tool_call.name)>>,
                                       <<Key("arguments"), PyText(tool_call.arguments)>> >>)>> >>)
MessageDump(message) ==
    Dict(<< <<Key("role"), PyText(<<"assistant">>)>>,
            <<Key("content"), PyText(message.content)>>,
            <<Key("tool_calls"),
              List([k \in 1..Len(message.tool_calls) |-> ToolCallDump(message.tool_calls[k])])>> >>)

\* the system message of ChatSession.start
SessionPrompt ==
    <<"Your task is to assist the user in developing an ASP (Answer Set programming) encoding. [...]">>

\* the tool calls a model may ask for: a server tool, a server tool with
\* arguments that are not JSON, the input tool, a tool no server offers
ValidArguments == <<"{", DQ>> \o <<"p", "r", "o", "m", "p", "t">> \o <<DQ, ":", " ", DQ, "q", DQ, "}">>
BadArguments == <<"{", "o", "o", "p", "s">>
ToolCallKinds ==
    { [name |-> <<"solve">>, arguments |-> ValidArguments],
      [name |-> <<"solve">>, arguments |-> BadArguments],
      [name |-> InputToolName, arguments |-> ValidArguments],
      [name |-> <<"nope">>, arguments |-> ValidArguments] }

ToolCallId(k) == <<"call_", DigitChar(k)>>
ToolCalls(kinds) ==
    [k \in 1..Len(kinds) |->
        [id |-> ToolCallId(k), name |-> kinds[k].name, arguments |-> kinds[k].arguments]]

\* the assistant messages the model may answer with, holding up to most
\* tool calls, the failed request and the request the user interrupts
SessionReplies(most) ==
    { [ok |-> TRUE, content |-> <<"ok">>, tool_calls |-> ToolCalls(kinds),
       raises |-> NoneValue] :
        kinds \in UNION { [1..n -> ToolCallKinds] : n \in 0..most } }
    \cup { [ok |-> FALSE, content |-> <<"Connection error.">>, tool_calls |-> <<>>,
             raises |-> Exc("APIError", <<"Connection error.">>)],
           [ok |-> FALSE, content |-> <<>>, tool_calls |-> <<>>,
             raises |-> KeyboardInterrupt] }

\* the session before ChatSession.start
NewSession ==
    [pc |-> "IDLE",
     history |-> <<>>,
     tool_calls |-> <<>>,
     next |-> 1,
     tool_result_messages |-> <<>>,
     executed |-> <<>>,
     error |-> NoneValue,
     signal |-> NoneValue,
     cleaned |-> FALSE,
     cleanups |-> <<>>,
     warnings |-> {},
     requests |-> 0,
     tool_calls_asked |-> 0]

(***************************************************************************)
(* State.                                                                  *)
(***************************************************************************)
VARIABLES
    agents,       \* the Agent objects that are reachable, by path from the root
    stack,        \* the Agent.ask invocations in progress, innermost last
    result,       \* what the last finished ask of the root agent returned
    raised,       \* the exception that left the root agent's ask, if any
    calls,        \* chat-completion requests made
    constructed,  \* Agent objects constructed
    session,      \* the chat session: ChatSession.start and its LLMClient
    main,         \* the loop of main(): where it stands, the signal that ended it
    sandbox,      \* one call of execute_bash_command or execute_python_code
    vfs,          \* the solver tool server: its virtual files, its last answer
    messages,     \* the chat history handed to Summarizer.compress_messages
    sys           \* sys.stdout and sys.stderr of the process

agent_vars == <<agents, stack, result, raised, calls, constructed, main>>
tool_vars == <<sandbox, vfs, messages, sys>>
vars == <<agents, stack, result, raised, calls, constructed, session, main,
         sandbox, vfs, messages, sys>>

Root == <<AgentName>>

\* no sandbox tool has been called
NewSandbox ==
    [pc |-> "IDLE", tool |-> "", code |-> NoneValue, script_path |-> NoneValue,
     temp_files |-> {}, outcome |-> NoneValue, output |-> NoneValue,
     returned |-> NoneValue]

\* the files on the disk of the solver tool server when it starts: one file
\* that is no virtual file, so that opening it for writing would truncate it
DiskAtStart == << << <<"u", ".", "p", "y">>, <<"o", "l", "d", "\n">> >> >>

\* vfs = VirtualFileManager(): no file, and no tool has answered
\* "before" holds the files as they were when the last call arrived
NewVfs ==
    [files |-> <<>>, before |-> <<>>, disk |-> DiskAtStart,
     call |-> [tool |-> "", filename |-> <<>>, content |-> <<>>, part_index |-> NoneValue],
     answer |-> NoneValue, calls |-> 0,
     solver |-> [num_models |-> 0, ctl_args |-> <<>>, available |-> 0, models |-> 0]]

\* a chat message: a key that is absent is the empty sequence
ChatMessage(role, content, tool_calls, tool_call_id) ==
    [role |-> role, content |-> content, tool_calls |-> tool_calls,
     tool_call_id |-> tool_call_id]

\* the history of a new LLMClient: the system message; "before" holds the
\* history as it was handed to compress_messages, num what the call returned
NewMessages ==
    [pc |-> "CHAT",
     history |-> <<ChatMessage("system", <<"prompt">>, <<>>, <<>>)>>,
     before |-> <<>>,
     num |-> NoneValue]

\* sys.stdout and sys.stderr of the process, and the two io.StringIO()
\* objects a tool puts in their place
NewSys == [stdout |-> "<stdout>", stderr |-> "<stderr>"]
Buffers == [stdout |-> "StringIO 1", stderr |-> "StringIO 2"]

\* a tool that puts back sys.stdout only
Restored_StdoutOnly(old, during, v) == [during EXCEPT !.stdout = old.stdout]

\* finally: sys.stdout, sys.stderr = old_stdout, old_stderr, whatever the
\* code under "try" has given (v) and has left in the two streams (during)
Restored(old, during, v) == old

\* the streams Agent.python_exec leaves when exec(content) gave v
ExecStreams(old, v) == Restored(old, Buffers, v)

\* the streams run_test leaves after the test files from the i-th on, for
\* which pytest.main gives exit_codes
RECURSIVE TestStreams(_, _, _)
TestStreams(streams, exit_codes, i) ==
    IF i > Len(exit_codes) THEN streams
    ELSE TestStreams(Restored(streams, Buffers, PyInt(exit_codes[i])), exit_codes, i + 1)

\* main() of main.py at the top of its loop
NewMain == [pc |-> "LOOP", signal |-> NoneValue]

\* the locals of one Agent.ask invocation; task is the argument as passed
Frame(id, task) ==
    [agent |-> id,
     task |-> task,
     msg |-> task,
     message_to_self |-> Turn(task, "user"),
     messages_to_caller |-> <<>>,
     answer_str |-> NoneValue,
     answer |-> NoneValue,
     returned |-> NoneValue,
     pc |-> "AWAITING_MODEL"]

Top == stack[Len(stack)]
Running == stack # <<>> /\ raised.ty = "NoneType"
SetTop(f) == [stack EXCEPT ![Len(stack)] = f]

Init ==
    /\ agents = [id \in {Root} |-> NewAgent(Root)]
    /\ stack = <<>>
    /\ result = NoneValue
    /\ raised = NoneValue
    /\ calls = 0
    /\ constructed = 1
    /\ session = NewSession
    /\ main = NewMain
    /\ sandbox = NewSandbox
    /\ vfs = NewVfs
    /\ messages = NewMessages
    /\ sys = NewSys

\* an exception leaves every ask on the stack and ends main
Raise(e) ==
    /\ raised' = e
    /\ UNCHANGED <<stack, result, constructed>>

\* main: agent.ask(command), while fewer than limit requests have been made
AskWithin(task, limit) ==
    /\ UNCHANGED <<session, main, tool_vars>>
    /\ stack = <<>>
    /\ raised.ty = "NoneType"
    /\ main.pc = "LOOP"
    /\ calls < limit
    /\ stack' = <<Frame(Root, task)>>
    /\ UNCHANGED <<agents, result, raised, calls, constructed>>

Ask(task) == AskWithin(task, MaxCalls)

\* the gateway self.llm of the running agent has been asked: its history
\* grows, and the value returned (or the exception) is r.ret
Asked(r, pc) ==
    /\ agents' = [agents EXCEPT ![Top.agent].llm = r.history]
    /\ calls' = calls + 1
    /\ IF IsExc(r.ret)
       THEN Raise(r.ret)
       ELSE /\ stack' = SetTop([Top EXCEPT !.answer_str = r.ret,
                                           !.message_to_self = NoneValue,
                                           !.pc = pc])
            /\ UNCHANGED <<result, raised, constructed>>

\* answer_str = self.llm.ask([message_to_self]); message_to_self = None,
\* the model answering with one of replies
ModelTurnOf(replies, limit) ==
    /\ UNCHANGED <<session, main, tool_vars>>
    /\ Running
    /\ Top.pc = "AWAITING_MODEL"
    /\ calls < limit
    /\ \E outcome \in replies :
          Asked(LLM_ask(agents[Top.agent].llm, List(<<Top.message_to_self>>), outcome),
                "PARSING")

ModelTurn == ModelTurnOf(MainReplies(Len(stack)), MaxCalls)

\* eval(answer_str) has given v
Parsed(v) ==
    IF IsExc(v)
    THEN Raise(v) /\ UNCHANGED <<agents, calls>>
    ELSE /\ stack' = SetTop([Top EXCEPT !.answer = v, !.pc = "HAVE_DECISION"])
         /\ UNCHANGED <<agents, result, raised, calls, constructed>>

\* answer = eval(answer_str) succeeds (or raises past "except Exception")
Parse ==
    /\ UNCHANGED <<session, main, tool_vars>>
    /\ Running
    /\ Top.pc = "PARSING"
    /\ ~Caught(EvalValue(Top.answer_str))
    /\ Parsed(EvalValue(Top.answer_str))

\* eval(answer_str) raises an Exception: the model is asked again
RepromptOf(replies, limit) ==
    /\ UNCHANGED <<session, main, tool_vars>>
    /\ Running
    /\ Top.pc = "PARSING"
    /\ Caught(EvalValue(Top.answer_str))
    /\ calls < limit
    /\ \E outcome \in replies :
          Asked(LLM_ask(agents[Top.agent].llm,
                        List(<<CorrectionTurn(EvalValue(Top.answer_str))>>), outcome),
                "PARSING")

Reprompt == RepromptOf(MainReplies(Len(stack)), MaxCalls)

\* recipient = answer["recipient"]; content = str(answer["content"])
Recipient(f) == Subscript(f.answer, RECIPIENT)
ContentValue(f) == Subscript(f.answer, CONTENT)
Content(f) == PyStr(ContentValue(f))

LocalRecipients == {SELF, CLEAR, CALLER, PYTHON_EVAL, PYTHON_EXEC}
\* a router that knows the fixed labels only
IsLocal_OnlyLabels(f, recipient, content) ==
    \/ IsExc(recipient)
    \/ IsExc(content)
    \/ recipient.ty = "str" /\ recipient.val \in LocalRecipients

\* the decision is handled inside this agent: reading it raises, or its
\* recipient is a fixed label or the agent's own name
IsLocal(f, recipient, content) ==
    \/ IsExc(recipient)
    \/ IsExc(content)
    \/ recipient.ty = "str" /\ recipient.val \in LocalRecipients
    \/ PyEq(recipient, PyText(f.agent[Len(f.agent)]))

\* what the handler of a local recipient leaves in message_to_self, or the
\* exception it raises; LLM has no method clear_history
Handle(name, recipient, content) ==
    CASE recipient = SELF -> Turn(content, "assistant")
      [] recipient = CLEAR ->
            Exc("AttributeError", <<"'LLM' object has no attribute 'clear_history'">>)
      [] recipient = CALLER -> NoneValue
      [] recipient = PYTHON_EVAL -> python_eval(name, content)
      [] recipient = PYTHON_EXEC -> python_exec(name, content)
      [] OTHER -> Turn(content, "assistant")

\* a router that keeps only the latest caller result
Handled_Overwrites(recipient, content, message) ==
    IF IsExc(message)
    THEN Raise(message)
    ELSE /\ stack' = SetTop([Top EXCEPT
                        !.message_to_self = message,
                        !.messages_to_caller =
                            IF recipient = CALLER THEN <<content>> ELSE @,
                        !.pc = "DISPATCHED"])
         /\ UNCHANGED <<result, raised, constructed>>

\* the handler has left message in message_to_self, or raised it
Handled(recipient, content, message) ==
    IF IsExc(message)
    THEN Raise(message)
    ELSE /\ stack' = SetTop([Top EXCEPT
                        !.message_to_self = message,
                        !.messages_to_caller =
                            IF recipient = CALLER THEN Append(@, content) ELSE @,
                        !.pc = "DISPATCHED"])
         /\ UNCHANGED <<result, raised, constructed>>

\* the decision has been read: recipient and content are the values of its
\* two keys, or the exception reading them raised
Dispatched(name, recipient, content) ==
    IF IsExc(recipient) THEN Raise(recipient)
    ELSE IF IsExc(content) THEN Raise(content)
    ELSE Handled(recipient.val, PyStr(content),
                 Handle(name, recipient.val, PyStr(content)))

\* the routing of a decision to self, clear, caller, python_eval,
\* python_exec or the agent's own name
Dispatch ==
    /\ UNCHANGED <<session, main, sandbox, vfs, messages>>
    /\ Running
    /\ Top.pc = "HAVE_DECISION"
    /\ IsLocal(Top, Recipient(Top), ContentValue(Top))
    /\ UNCHANGED <<agents, calls>>
    /\ sys' = IF /\ ~IsExc(Recipient(Top))
                 /\ ~IsExc(ContentValue(Top))
                 /\ PyEq(Recipient(Top), PyText(PYTHON_EXEC))
              THEN ExecStreams(sys, PyEval(Content(Top)))
              ELSE sys
    /\ Dispatched(Top.agent[Len(Top.agent)], Recipient(Top), ContentValue(Top))

\* a registry that stores the agent just constructed under the name,
\* whatever is registered there: self.agents[recipient] = Agent(recipient, self)
Registered_Replaces(asked, a, recipient) ==
    [id \in DOMAIN asked \cup {Append(a, recipient)} |->
        IF id = Append(a, recipient) THEN NewAgent(id)
        ELSE IF id = a THEN [asked[a] EXCEPT !.agents = @ \cup {recipient}]
        ELSE asked[id]]

\* agent = self.agents.setdefault(recipient, Agent(recipient, self)) in the
\* agent with path a, whose gateways are as in asked
Registered(asked, a, recipient) ==
    IF recipient \in asked[a].agents
    THEN asked
    ELSE [id \in DOMAIN asked \cup {Append(a, recipient)} |->
            IF id = Append(a, recipient) THEN NewAgent(id)
            ELSE IF id = a THEN [asked[a] EXCEPT !.agents = @ \cup {recipient}]
            ELSE asked[id]]

\* a router that looks the child up, constructing it, before it asks the
\* distinctness oracle
Forwarded_RegistersFirst(a, recipient, content, d) ==
    /\ calls' = calls + 1
    /\ IF IsExc(d.ret)
       THEN /\ agents' = [agents EXCEPT ![a].llm_new_task = d.history]
            /\ Raise(d.ret)
       ELSE IF recipient.ty # "str"
       THEN /\ agents' = [agents EXCEPT ![a].llm_new_task = d.history]
            /\ IF d.ret.val
               THEN Raise(Exc("AttributeError",
                          <<SQ>> \o <<recipient.ty>>
                          \o <<"' object has no attribute 'encode'">>))
               ELSE Raise(Exc("TypeError",
                          <<"can only concatenate str (not \"">> \o <<recipient.ty>>
                          \o <<"\") to str">>))
       ELSE IF d.ret.val
       THEN \* agent = self.agents.setdefault(recipient, Agent(recipient, self))
            \* response = agent.ask(content)
            /\ constructed' = constructed + 1
            /\ agents' = Registered([agents EXCEPT ![a].llm_new_task = d.history],
                                    a, recipient.val)
            /\ stack' = Append(SetTop([Top EXCEPT !.pc = "FORWARDED"]),
                               Frame(Append(a, recipient.val), content))
            /\ UNCHANGED <<result, raised>>
       ELSE /\ constructed' = constructed + 1
            /\ agents' = Registered([agents EXCEPT ![a].llm_new_task = d.history],
                                    a, recipient.val)
            /\ stack' = SetTop([Top EXCEPT
                         !.message_to_self = SkipTurn(a[Len(a)], recipient.val),
                         !.pc = "DISPATCHED"])
            /\ UNCHANGED <<result, raised>>

\* the distinctness oracle has answered d.ret for the decision of the
\* running agent
Forwarded(a, recipient, content, d) ==
    /\ calls' = calls + 1
    /\ IF IsExc(d.ret)
       THEN /\ agents' = [agents EXCEPT ![a].llm_new_task = d.history]
            /\ Raise(d.ret)
       ELSE IF recipient.ty # "str"
       THEN /\ agents' = [agents EXCEPT ![a].llm_new_task = d.history]
            /\ IF d.ret.val
               THEN Raise(Exc("AttributeError",
                          <<SQ>> \o <<recipient.ty>>
                          \o <<"' object has no attribute 'encode'">>))
               ELSE Raise(Exc("TypeError",
                          <<"can only concatenate str (not \"">> \o <<recipient.ty>>
                          \o <<"\") to str">>))
       ELSE IF d.ret.val
       THEN \* agent = self.agents.setdefault(recipient, Agent(recipient, self))
            \* response = agent.ask(content)
            /\ constructed' = constructed + 1
            /\ agents' = Registered([agents EXCEPT ![a].llm_new_task = d.history],
                                    a, recipient.val)
            /\ stack' = Append(SetTop([Top EXCEPT !.pc = "FORWARDED"]),
                               Frame(Append(a, recipient.val), content))
            /\ UNCHANGED <<result, raised>>
       ELSE /\ agents' = [agents EXCEPT ![a].llm_new_task = d.history]
            /\ stack' = SetTop([Top EXCEPT
                         !.message_to_self = SkipTurn(a[Len(a)], recipient.val),
                         !.pc = "DISPATCHED"])
            /\ UNCHANGED <<result, raised, constructed>>

\* the routing of a decision that names another agent
ForwardOf(replies, limit) ==
    /\ UNCHANGED <<session, main, tool_vars>>
    /\ Running
    /\ Top.pc = "HAVE_DECISION"
    /\ ~IsLocal(Top, Recipient(Top), ContentValue(Top))
    /\ calls < limit
    /\ \E outcome \in replies :
          Forwarded(Top.agent, Recipient(Top), Content(Top),
                    task_differs(agents[Top.agent].llm_new_task, Top.msg,
                                 Content(Top), outcome))

Forward == ForwardOf(OracleReplies, MaxCalls)

\* the inner loop "while message_to_self" is tested
Continue ==
    /\ UNCHANGED <<session, main, tool_vars>>
    /\ Running
    /\ Top.pc = "DISPATCHED"
    /\ stack' = SetTop([Top EXCEPT !.pc =
                    IF Top.message_to_self.ty # "NoneType"
                    THEN "AWAITING_MODEL" ELSE "CHECKING_COMPLETION"])
    /\ UNCHANGED <<agents, result, raised, calls, constructed>>

\* a loop that returns after the completion check whatever its verdict
Checked_ReturnsAlways(c) ==
    /\ agents' = [agents EXCEPT ![Top.agent].llm_finished = c.history]
    /\ calls' = calls + 1
    /\ IF IsExc(c.ret)
       THEN Raise(c.ret)
       ELSE /\ stack' = SetTop([Top EXCEPT !.returned = CallerResult(Top.messages_to_caller),
                                           !.pc = "DONE"])
            /\ UNCHANGED <<result, raised, constructed>>

\* a loop that gives up after one corrective round
Checked_GivesUp(c) ==
    /\ agents' = [agents EXCEPT ![Top.agent].llm_finished = c.history]
    /\ calls' = calls + 1
    /\ IF IsExc(c.ret)
       THEN Raise(c.ret)
       ELSE /\ stack' = SetTop(
                 IF c.ret.val \/ Top.msg = NotCompleteMsg
                 THEN [Top EXCEPT !.returned = CallerResult(Top.messages_to_caller),
                                  !.pc = "DONE"]
                 ELSE [Top EXCEPT !.msg = NotCompleteMsg,
                                  !.message_to_self = Turn(NotCompleteMsg, "user"),
                                  !.pc = "AWAITING_MODEL"])
            /\ UNCHANGED <<result, raised, constructed>>

\* the completion oracle has answered c.ret
Checked(c) ==
    /\ agents' = [agents EXCEPT ![Top.agent].llm_finished = c.history]
    /\ calls' = calls + 1
    /\ IF IsExc(c.ret)
       THEN Raise(c.ret)
       ELSE /\ stack' = SetTop(
                 IF c.ret.val
                 THEN [Top EXCEPT !.returned = CallerResult(Top.messages_to_caller),
                                  !.pc = "DONE"]
                 ELSE [Top EXCEPT !.msg = NotCompleteMsg,
                                  !.message_to_self = Turn(NotCompleteMsg, "user"),
                                  !.pc = "AWAITING_MODEL"])
            /\ UNCHANGED <<result, raised, constructed>>

\* if self.task_completed(msg, messages_to_caller): return ...; else the
\* corrective message replaces msg and becomes the next self-message
CheckCompletionOf(replies, limit) ==
    /\ UNCHANGED <<session, main, tool_vars>>
    /\ Running
    /\ Top.pc = "CHECKING_COMPLETION"
    /\ calls < limit
    /\ \E outcome \in replies :
          Checked(task_completed(agents[Top.agent].llm_finished, Top.msg,
                                 Top.messages_to_caller, outcome))

CheckCompletion == CheckCompletionOf(OracleReplies, MaxCalls)

\* ask returns: to main, or to the parent's "response = agent.ask(content)"
Return ==
    /\ UNCHANGED <<session, main, tool_vars>>
    /\ Running
    /\ Top.pc = "DONE"
    /\ IF Len(stack) = 1
       THEN /\ stack' = <<>>
            /\ result' = Top.returned
       ELSE /\ stack' = [SubSeq(stack, 1, Len(stack) - 1) EXCEPT ![Len(stack) - 1] =
                            [@ EXCEPT !.message_to_self = Tuple(<<Top.returned, PyText(<<"assistant">>)>>),
                                      !.pc = "DISPATCHED"]]
            /\ UNCHANGED result
    /\ UNCHANGED <<agents, raised, calls, constructed>>

Next ==
    \/ \E task \in Tasks : Ask(task)
    \/ ModelTurn
    \/ Parse
    \/ Reprompt
    \/ Dispatch
    \/ Forward
    \/ Continue
    \/ CheckCompletion
    \/ Return

Spec == Init /\ [][Next]_vars

(***************************************************************************)
(* The same program with a model that keeps to the reply format: it        *)
(* echoes, answers the caller or delegates to agent_helper, and the        *)
(* oracles answer in words.  Runs are longer, so that an agent is          *)
(* delegated to more than once.                                            *)
(***************************************************************************)
Hello == <<"h", "e", "l", "l", "o">>
EchoHello == <<"e", "c", "h", "o", " ">> \o Hello
YesDone == <<"Y", "e", "s", ",", " ", "d", "o", "n", "e", ".">>

ScenarioTasks == { EchoHello }

ScenarioReplies(depth) ==
    { Reply(Quoted(DecisionText(SELF, Hello))),
      Reply(Quoted(DecisionText(CALLER, Hello))),
      Reply(Garbage) }
    \cup (IF depth <= MaxDepth
          THEN {Reply(Quoted(DecisionText(HelperName, SubTask)))}
          ELSE {})

ScenarioOracleReplies ==
    { Reply(YesDone),
      Reply(Quoted(YesDone)),
      Reply(Quoted(<<"n", "o">>)) }

ScenarioAsk == \E task \in ScenarioTasks : AskWithin(task, MaxScenarioCalls)
ScenarioModelTurn == ModelTurnOf(ScenarioReplies(Len(stack)), MaxScenarioCalls)
ScenarioReprompt == RepromptOf(ScenarioReplies(Len(stack)), MaxScenarioCalls)
ScenarioForward == ForwardOf(ScenarioOracleReplies, MaxScenarioCalls)
ScenarioCheckCompletion == CheckCompletionOf(ScenarioOracleReplies, MaxScenarioCalls)

ScenarioNext ==
    \/ ScenarioAsk
    \/ ScenarioModelTurn
    \/ Parse
    \/ ScenarioReprompt
    \/ Dispatch
    \/ ScenarioForward
    \/ Continue
    \/ ScenarioCheckCompletion
    \/ Return

ScenarioSpec == Init /\ [][ScenarioNext]_vars

(***************************************************************************)
(* Asks whose model names every recipient: the five labels, the name of    *)
(* the root agent, and the name of the helper (also to the helper itself), *)
(* or answers with a text that is no decision.  The requests suffice for a child to answer one task and be asked a      *)
(* second.                                                                 *)
(***************************************************************************)
RegistryReplies(depth) ==
    { Reply(Quoted(DecisionText(SELF, Hello))),
      Reply(Quoted(DecisionText(CALLER, Hello))),
      Reply(Quoted(DecisionText(CLEAR, Hello))),
      Reply(Quoted(DecisionText(PYTHON_EVAL, PrintSeven))),
      Reply(Quoted(DecisionText(PYTHON_EXEC, PrintSeven))),
      Reply(Quoted(DecisionText(HelperName, SubTask))),
      Reply(Garbage) }
    \cup (IF depth <= MaxDepth
          THEN {Reply(Quoted(DecisionText(AgentName, SubTask)))}
          ELSE {})

RegistryOracleReplies ==
    { Reply(Quoted(YesDone)), Reply(Quoted(<<"n", "o">>)) }

RegistryAsk == \E task \in ScenarioTasks : AskWithin(task, MaxRegistryCalls)
RegistryModelTurn == ModelTurnOf(RegistryReplies(Len(stack)), MaxRegistryCalls)
RegistryReprompt == RepromptOf(RegistryReplies(Len(stack)), MaxRegistryCalls)
RegistryForward == ForwardOf(RegistryOracleReplies, MaxRegistryCalls)
RegistryCheckCompletion == CheckCompletionOf(RegistryOracleReplies, MaxRegistryCalls)

RegistryNext ==
    \/ RegistryAsk
    \/ RegistryModelTurn
    \/ Parse
    \/ RegistryReprompt
    \/ Dispatch
    \/ RegistryForward
    \/ Continue
    \/ RegistryCheckCompletion
    \/ Return

RegistrySpec == Init /\ [][RegistryNext]_vars

(***************************************************************************)
(* One ask of the root agent with models that stall only finitely often:   *)
(* for the first MaxPatience requests the main model may answer anything   *)
(* of the reply format (a malformed text, a self-message, a delegation, a  *)
(* result, a clear) and the oracles may say no; from then on the main      *)
(* model answers with a result for the caller or a clear, and the oracles  *)
(* say yes.  The program is sequential: while an ask is running, its next  *)
(* step is taken as soon as the model has answered.  PatientFairness is    *)
(* this weak fairness of the steps, WF_vars(PatientNext), with the         *)
(* enabling condition written out: a step is possible exactly when the ask *)
(* has neither returned nor raised (PatientStopped).                       *)
(***************************************************************************)
PatientReplies(depth) ==
    { Reply(Quoted(DecisionText(CALLER, Hello))),
      Reply(Quoted(DecisionText(CLEAR, Hello))) }
    \cup (IF calls < MaxPatience
          THEN { Reply(Garbage), Reply(Quoted(DecisionText(SELF, Hello))) }
               \cup (IF depth <= MaxDepth
                     THEN {Reply(Quoted(DecisionText(HelperName, SubTask)))}
                     ELSE {})
          ELSE {})

PatientOracleReplies ==
    { Reply(Quoted(YesDone)) }
    \cup (IF calls < MaxPatience THEN { Reply(Quoted(<<"n", "o">>)) } ELSE {})

\* requests one ask can make once the models have stopped stalling: no
\* behaviour reaches this number
PatientLimit == MaxPatience + 4 * (MaxDepth + 2)

PatientAsk == \E task \in ScenarioTasks : calls = 0 /\ result = NoneValue /\ AskWithin(task, PatientLimit)
PatientModelTurn == ModelTurnOf(PatientReplies(Len(stack)), PatientLimit)
PatientReprompt == RepromptOf(PatientReplies(Len(stack)), PatientLimit)
PatientForward == ForwardOf(PatientOracleReplies, PatientLimit)
PatientCheckCompletion == CheckCompletionOf(PatientOracleReplies, PatientLimit)

PatientNext ==
    \/ PatientAsk
    \/ PatientModelTurn
    \/ Parse
    \/ PatientReprompt
    \/ Dispatch
    \/ PatientForward
    \/ Continue
    \/ PatientCheckCompletion
    \/ Return

\* the ask has ended, by a result handed to main or by an exception
PatientStopped == ~Running /\ (result # NoneValue \/ raised # NoneValue)

PatientFairness == []<>PatientStopped \/ []<><<PatientNext>>_vars

PatientSpec == Init /\ [][PatientNext]_vars /\ PatientFairness

\* PatientStopped is the enabling condition of PatientNext: no step leaves a
\* stopped state, and PatientProgress (stopped states stutter) has no state
\* without a successor
PatientStoppedIsFinal == [][~PatientStopped]_vars
PatientProgress == Init /\ [][PatientNext \/ (PatientStopped /\ UNCHANGED vars)]_vars

(***************************************************************************)
(* The chat session's loop.                                                *)
(***************************************************************************)
\* what server.cleanup() of each server does when it is called: it returns
\* or it fails
CleanupOutcomes ==
    [1..Len(ServerTools) -> {NoneValue, Exc("RuntimeError", <<"cleanup failed">>)}]

\* the servers cleanup_servers calls cleanup on, in the order of the calls:
\* from the last server of the list down to the first, or down to the
\* server whose cleanup raises an exception of stops
Attempts(outcomes, stops) ==
    LET n == Len(ServerTools)
        stop == IF \E k \in 1..n : stops[k]
                THEN CHOOSE k \in 1..n : stops[k] /\ \A j \in (k + 1)..n : ~stops[j]
                ELSE 1
    IN  [i \in 1..(n + 1 - stop) |-> n + 1 - i]

\* a cleanup whose loop has no handler: the first failure ends it
cleanup_servers_StopsAtFailure(s, outcomes) ==
    LET attempts == Attempts(outcomes, [k \in 1..Len(ServerTools) |-> IsExc(outcomes[k])])
    IN  [s EXCEPT !.cleaned = TRUE,
                  !.cleanups = @ \o attempts,
                  !.warnings = @]

\* ChatSession.cleanup_servers: for server in reversed(self.servers), with
\* "except Exception" around each cleanup: a failure is logged as a
\* warning, only an exception that is no Exception ends the loop
cleanup_servers(s, outcomes) ==
    LET attempts == Attempts(outcomes, [k \in 1..Len(ServerTools) |-> Escapes(outcomes[k])])
    IN  [s EXCEPT !.cleaned = TRUE,
                  !.cleanups = @ \o attempts,
                  !.warnings = @ \cup {attempts[i] : i \in {j \in 1..Len(attempts) :
                                                            Caught(outcomes[attempts[j]])}}]

\* an exception leaves ChatSession.start; "finally" cleans the servers up
SessionRaises(e) ==
    \E outcomes \in CleanupOutcomes :
        session' = cleanup_servers([session EXCEPT !.pc = "RAISED", !.error = e,
                                                   !.signal = e], outcomes)

\* a server has failed to initialize: the servers are cleaned up, start
\* returns, and "finally" cleans them up once more
SessionReturns ==
    \E first \in CleanupOutcomes, second \in CleanupOutcomes :
        session' = cleanup_servers(cleanup_servers([session EXCEPT !.pc = "RETURNED"],
                                                   first), second)

\* a loop whose try statement has no handler
LoopRaises_Uncaught(e) == SessionRaises(e)

\* an exception reaches the try statement of the loop of start: "except
\* KeyboardInterrupt" breaks out of the loop, any other exception leaves start
LoopRaises(e) ==
    IF e.val.cls = "KeyboardInterrupt"
    THEN \E outcomes \in CleanupOutcomes :
            session' = cleanup_servers([session EXCEPT !.pc = "RETURNED", !.signal = e],
                                       outcomes)
    ELSE SessionRaises(e)

\* the first line of the user has been read, or the user interrupted: the
\* first prompt stands before the loop
Started(user_input) ==
    IF IsExc(user_input)
    THEN SessionRaises(user_input)
    ELSE session' = [session EXCEPT
                        !.pc = "GET_RESPONSE",
                        !.history = <<SystemMessage(SessionPrompt), UserMessage(user_input.val)>>]

\* ChatSession.start up to its loop: the servers are initialized (a failure
\* ends the session), the client is made, the first user message is added
SessionStart ==
    /\ session.pc = "IDLE"
    /\ UNCHANGED <<agent_vars, tool_vars>>
    /\ \/ SessionReturns
       \/ \E user_input \in UserInputs : Started(user_input)

\* LLMClient.get_response has been answered with message, or has raised
Responded(message) ==
    IF message.ok
    THEN session' = [session EXCEPT
                        !.pc = "PROCESSING",
                        !.history = Append(@, MessageDump(message)),
                        !.tool_calls = message.tool_calls,
                        !.next = 1,
                        !.tool_result_messages = <<>>,
                        !.requests = @ + 1,
                        !.tool_calls_asked = @ + Len(message.tool_calls)]
    ELSE LoopRaises(message.raises)

\* llm_response = asp_llm.get_response()
GetResponse ==
    /\ session.pc = "GET_RESPONSE"
    /\ session.requests < MaxRequests
    /\ UNCHANGED <<agent_vars, tool_vars>>
    /\ \E message \in SessionReplies(MaxToolCalls - session.tool_calls_asked) :
          Responded(message)

\* one more tool message has been appended to tool_result_messages
ToolResult(tool_call, content) ==
    session' = [session EXCEPT
                   !.tool_result_messages = Append(@, ToolMessage(tool_call.id, content)),
                   !.next = @ + 1]

\* server.execute_tool(tool_name, arguments) of the server has given outcome
Executed(tool_call, server, outcome) ==
    IF Escapes(outcome) THEN LoopRaises(outcome)
    ELSE
    session' = [session EXCEPT
                   !.tool_result_messages =
                       Append(@, ToolMessage(tool_call.id,
                                  IF IsExc(outcome) THEN JsonDumpsError(PyStr(outcome))
                                  ELSE outcome.val)),
                   !.executed = Append(@, <<server, tool_call.id>>),
                   !.next = @ + 1]

\* the input tool: the user answers the prompt, or interrupts
Answered(tool_call, prompt, user_input) ==
    IF IsExc(prompt) THEN LoopRaises(prompt)
    ELSE IF IsExc(user_input) THEN LoopRaises(user_input)
    ELSE ToolResult(tool_call, user_input.val)

\* one pass of the loop over tool_calls in process_llm_response
Processed(tool_call, arguments) ==
    IF IsExc(arguments) THEN LoopRaises(arguments)
    ELSE IF FindServer(tool_call.name) # 0
    THEN \E outcome \in ToolOutcomes : Executed(tool_call, FindServer(tool_call.name), outcome)
    ELSE IF tool_call.name = InputToolName
    THEN \E user_input \in UserInputs :
            Answered(tool_call, Subscript(arguments, <<"p", "r", "o", "m", "p", "t">>), user_input)
    ELSE ToolResult(tool_call, JsonDumpsError(<<"No server found with tool: ">> \o tool_call.name))

ProcessToolCall ==
    /\ session.pc = "PROCESSING"
    /\ session.next <= Len(session.tool_calls)
    /\ UNCHANGED <<agent_vars, tool_vars>>
    /\ Processed(session.tool_calls[session.next],
                 JsonLoads(session.tool_calls[session.next].arguments))

\* a loop that reads the user's next line after every assistant turn
TurnFinished_AlwaysPrompts(user_input) ==
    IF IsExc(user_input) THEN LoopRaises(user_input)
    ELSE session' = [session EXCEPT !.pc = "GET_RESPONSE",
                                    !.history = Append(@ \o session.tool_result_messages,
                                                       UserMessage(user_input.val))]

\* the tool messages have been added; without any, the user's next line is
\* read and added, unless the user interrupts
TurnFinished(user_input) ==
    IF session.tool_result_messages # <<>>
    THEN session' = [session EXCEPT !.pc = "GET_RESPONSE",
                                    !.history = @ \o session.tool_result_messages]
    ELSE IF IsExc(user_input) THEN LoopRaises(user_input)
    ELSE session' = [session EXCEPT !.pc = "GET_RESPONSE",
                                    !.history = Append(@, UserMessage(user_input.val))]

\* process_llm_response returns and the loop of start adds its messages
FinishTurn ==
    /\ session.pc = "PROCESSING"
    /\ session.next > Len(session.tool_calls)
    /\ UNCHANGED <<agent_vars, tool_vars>>
    /\ \E user_input \in UserInputs : TurnFinished(user_input)

SessionNext ==
    \/ SessionStart
    \/ GetResponse
    \/ ProcessToolCall
    \/ FinishTurn

SessionSpec == Init /\ [][SessionNext]_vars

(***************************************************************************)
(* The two programs under a user who may quit or interrupt: main() of      *)
(* main.py around the agent, and the chat session.  They are separate      *)
(* programs: a behaviour runs one of them.                                 *)
(***************************************************************************)
\* the chat session has not been started, the agent program has not
NoChat == session = NewSession
NoAgent == agent_vars = <<[id \in {Root} |-> NewAgent(Root)], <<>>, NoneValue, NoneValue, 0, 1, NewMain>>

\* command.strip(), for blanks
Strip(t) ==
    IF \A i \in 1..Len(t) : t[i] = " " THEN <<>>
    ELSE SubSeq(t, CHOOSE i \in 1..Len(t) : t[i] # " " /\ \A j \in 1..(i - 1) : t[j] = " ",
                   CHOOSE i \in 1..Len(t) : t[i] # " " /\ \A j \in (i + 1)..Len(t) : t[j] = " ")

\* command.strip().lower() in {'exit', 'quit'}
IsExitCommand(command) ==
    Lower(Strip(command)) \in { <<"e", "x", "i", "t">>, <<"q", "u", "i", "t">> }

\* the lines the user may type besides a task
Commands == { <<"e", "x", "i", "t">>, <<" ", "Q", "u", "i", "t", " ">> } \cup Tasks

\* what may arrive from the terminal: Ctrl-C anywhere, end of input at the
\* prompt
EOFError == Exc("EOFError", <<>>)

\* except (KeyboardInterrupt, EOFError)
MainCatches(e) == e.val.cls \in {"KeyboardInterrupt", "EOFError"}

\* an exception reaches the try statement of the loop of main: the loop is
\* left by "break", or the exception leaves main
MainRaises(e) ==
    main' = [pc |-> IF MainCatches(e) THEN "EXITED" ELSE "CRASHED", signal |-> e]

\* the user types exit or quit at the prompt
Quit ==
    /\ NoChat
    /\ main.pc = "LOOP"
    /\ stack = <<>>
    /\ raised.ty = "NoneType"
    /\ \E command \in Commands :
          /\ IsExitCommand(command)
          /\ main' = [main EXCEPT !.pc = "EXITED"]
    /\ UNCHANGED <<agents, stack, result, raised, calls, constructed, session, tool_vars>>

\* input() raises e: the user interrupts or closes the input
InputRaises ==
    /\ NoChat
    /\ main.pc = "LOOP"
    /\ stack = <<>>
    /\ raised.ty = "NoneType"
    /\ \E e \in {KeyboardInterrupt, EOFError} : MainRaises(e)
    /\ UNCHANGED <<agents, stack, result, raised, calls, constructed, session, tool_vars>>

\* the user interrupts agent.ask, wherever it stands: no "except Exception"
\* of the agents and gateways on the stack catches KeyboardInterrupt, so it
\* leaves every ask
Interrupt ==
    /\ NoChat
    /\ main.pc = "LOOP"
    /\ Running
    /\ Escapes(KeyboardInterrupt)
    /\ raised' = KeyboardInterrupt
    /\ MainRaises(KeyboardInterrupt)
    /\ UNCHANGED <<agents, stack, result, calls, constructed, session, tool_vars>>

\* an exception other than an interrupt has left agent.ask: it leaves main
Crash ==
    /\ NoChat
    /\ main.pc = "LOOP"
    /\ IsExc(raised)
    /\ MainRaises(raised)
    /\ UNCHANGED <<agents, stack, result, raised, calls, constructed, session, tool_vars>>

\* a step of the agent under main, a step of the chat session
AgentStep == NoChat /\ Next
ChatStep == NoAgent /\ SessionNext

SupervisorNext ==
    \/ AgentStep
    \/ Quit
    \/ InputRaises
    \/ Interrupt
    \/ Crash
    \/ ChatStep

SupervisorSpec == Init /\ [][SupervisorNext]_vars

(***************************************************************************)
(* The sandbox tools execute_bash_command and execute_python_code.  The    *)
(* process they start is their environment: it exits, it is still running  *)
(* after the timeout, or it cannot be started.                             *)
(***************************************************************************)
Bytes(t) == [ty |-> "bytes", val |-> t]

\* json.dumps of a str, an int, a bool or None; TypeError for any other value
JsonScalar(v) ==
    CASE v.ty = "str" ->
            PyText(<<DQ>> \o [i \in 1..Len(v.val) |->
                                 CASE v.val[i] = "\n" -> "\\n"
                                   [] v.val[i] = DQ -> "\\\""
                                   [] OTHER -> v.val[i]] \o <<DQ>>)
      [] v.ty = "int" -> PyText(IF v.val < 0 THEN <<"-">> \o Digits(-v.val) ELSE Digits(v.val))
      [] v.ty = "bool" -> PyText(IF v.val THEN <<"true">> ELSE <<"false">>)
      [] v.ty = "NoneType" -> PyText(<<"null">>)
      [] OTHER -> Exc("TypeError", <<"Object of type ", v.ty, " is not JSON serializable">>)

RECURSIVE JsonJoin(_, _)
JsonJoin(parts, separator) ==
    IF parts = <<>> THEN <<>>
    ELSE IF Len(parts) = 1 THEN parts[1]
    ELSE parts[1] \o separator \o JsonJoin(Tail(parts), separator)

\* json.dumps(d) and json.dumps(d, indent=2) of a dict d with text keys: the
\* text, or the TypeError of the first value that cannot be serialized
JsonDumps(d, indent) ==
    IF \E k \in 1..Len(d.val) : IsExc(JsonScalar(d.val[k][2]))
    THEN JsonScalar(d.val[CHOOSE k \in 1..Len(d.val) :
                             /\ IsExc(JsonScalar(d.val[k][2]))
                             /\ \A j \in 1..(k - 1) : ~IsExc(JsonScalar(d.val[j][2]))][2])
    ELSE PyText((IF indent = 0 THEN <<"{">> ELSE <<"{", "\n", "  ">>)
                \o JsonJoin([k \in 1..Len(d.val) |->
                                <<DQ>> \o d.val[k][1] \o <<DQ, ":", " ">>
                                \o JsonScalar(d.val[k][2]).val],
                            IF indent = 0 THEN <<",", " ">> ELSE <<",", "\n", "  ">>)
                \o (IF indent = 0 THEN <<"}">> ELSE <<"\n", "}">>))

\* the dict "output" of both tools
Output(stdout, stderr, returncode, success) ==
    Dict(<< <<Key("stdout"), stdout>>, <<Key("stderr"), stderr>>,
            <<Key("returncode"), returncode>>, <<Key("success"), success>> >>)

\* what subprocess.run(..., capture_output=True, text=True, timeout=10) does:
\* the process exits with a return code, TimeoutExpired is raised (its
\* stdout is None, or the bytes read so far), or the process cannot be
\* started
ReturnCodes == {0, 1, 3, -9}
RunOutcomes ==
    { [kind |-> "completed", stdout |-> PyText(out), stderr |-> PyText(err),
       returncode |-> PyInt(rc), error |-> NoneValue] :
        out \in {<<>>, <<"h", "i", "\n">>}, err \in {<<>>, <<"oops">>}, rc \in ReturnCodes }
    \cup { [kind |-> "timeout", stdout |-> out, stderr |-> NoneValue,
             returncode |-> NoneValue, error |-> Exc("TimeoutExpired", <<"timed out after 10 seconds">>)] :
             out \in {NoneValue, Bytes(<<"h", "i", "\n">>)} }
    \cup { [kind |-> "raised", stdout |-> NoneValue, stderr |-> NoneValue,
             returncode |-> NoneValue,
             error |-> Exc("FileNotFoundError", <<"[Errno 2] No such file or directory">>)] }

\* the arguments the tools are called with: scripts, and a value that is no
\* text
Codes == { PyText(<<"echo hi">>), PyText(<<"sleep 20">>), NoneValue }
Tools == {"execute_bash_command", "execute_python_code"}

\* "output" after the try statement, for an outcome of subprocess.run
OutputOf(outcome) ==
    CASE outcome.kind = "completed" ->
            Output(outcome.stdout, outcome.stderr, outcome.returncode,
                   PyBool(outcome.returncode.val = 0))
      [] outcome.kind = "timeout" ->
            Output(outcome.stdout, PyText(<<"Timeout expired">>), PyInt(-1), PyBool(FALSE))
      [] OTHER ->
            Output(PyText(<<>>), PyText(PyStr(outcome.error)), PyInt(-1), PyBool(FALSE))

\* the fallback of execute_bash_command when json.dumps raises TypeError
Fallback(output) ==
    Output(PyText(<<>>), PyText(<<"Failed to serialize output to JSON">>),
           PyText(<<>>), PyBool(FALSE))

\* the tool is called: the temporary file is made and the code written to
\* it; f.write raises TypeError for a code that is no text, before
\* script_path is assigned
WriteScript(tool, code) ==
    sandbox' = IF code.ty = "str"
               THEN [sandbox EXCEPT !.pc = "RUN", !.tool = tool, !.code = code,
                                    !.script_path = PyText(<<"tmp1">>),
                                    !.temp_files = @ \cup {<<"tmp1">>}]
               ELSE [sandbox EXCEPT !.pc = "FINALLY", !.tool = tool, !.code = code,
                                    !.temp_files = @ \cup {<<"tmp1">>},
                                    !.outcome = [kind |-> "raised", stdout |-> NoneValue,
                                                 stderr |-> NoneValue, returncode |-> NoneValue,
                                                 error |-> Exc("TypeError",
                                                     <<"write() argument must be str, not ", code.ty>>)],
                                    !.output = Output(PyText(<<>>),
                                                   PyText(<<"write() argument must be str, not ", code.ty>>),
                                                   PyInt(-1), PyBool(FALSE))]

Call ==
    /\ sandbox.pc = "IDLE"
    /\ \E tool \in Tools, code \in Codes : WriteScript(tool, code)
    /\ UNCHANGED <<agent_vars, session, vfs, messages, sys>>

\* subprocess.run has ended with outcome: "output" is built by the try
\* statement or by one of its handlers
Run ==
    /\ sandbox.pc = "RUN"
    /\ \E outcome \in RunOutcomes :
          sandbox' = [sandbox EXCEPT !.pc = "FINALLY", !.outcome = outcome,
                                     !.output = OutputOf(outcome)]
    /\ UNCHANGED <<agent_vars, session, vfs, messages, sys>>

\* what the tool returns, or the exception that leaves it
Serialized(tool, output) ==
    IF tool = "execute_bash_command"
    THEN IF IsExc(JsonDumps(output, 2))
         THEN [output |-> Fallback(output), returned |-> JsonDumps(Fallback(output), 0)]
         ELSE [output |-> output, returned |-> JsonDumps(output, 2)]
    ELSE [output |-> output, returned |-> JsonDumps(output, 0)]

\* "finally" unlinks the script if script_path was assigned, then the
\* output is serialized and returned
Finish ==
    /\ sandbox.pc = "FINALLY"
    /\ sandbox' = [sandbox EXCEPT
                      !.pc = "RETURNED",
                      !.temp_files = IF sandbox.script_path.ty = "str"
                                     THEN @ \ {sandbox.script_path.val} ELSE @,
                      !.output = Serialized(sandbox.tool, sandbox.output).output,
                      !.returned = Serialized(sandbox.tool, sandbox.output).returned]
    /\ UNCHANGED <<agent_vars, session, vfs, messages, sys>>

SandboxNext == Call \/ Run \/ Finish

SandboxSpec == Init /\ [][SandboxNext]_vars

(***************************************************************************)
(* The solver tool server, clingo_mcp_server/server.py.  A Python dict is  *)
(* a sequence of <<key, value>> pairs in insertion order; vfs.files maps   *)
(* a name to the dict of its parts, whose keys are the texts str(index).   *)
(* clingo and pytest are the server's environment.                         *)
(***************************************************************************)
Has(d, key) == \E i \in 1..Len(d) : d[i][1] = key
Get(d, key) == d[CHOOSE i \in 1..Len(d) : d[i][1] = key][2]
\* d[key] = value
Set(d, key, value) ==
    IF Has(d, key) THEN [i \in 1..Len(d) |-> IF d[i][1] = key THEN <<key, value>> ELSE d[i]]
    ELSE Append(d, <<key, value>>)
\* del d[key]
Del(d, key) == SelectSeq(d, LAMBDA e : e[1] # key)

\* a create_file that leaves an existing file as it is
create_file_KeepsParts(files, name) == IF Has(files, name) THEN files ELSE Set(files, name, <<>>)

\* VirtualFileManager.create_file
create_file(files, name) == Set(files, name, <<>>)

\* VirtualFileManager.write_to_file
write_to_file(files, name, content, index) ==
    Set(IF Has(files, name) THEN files ELSE create_file(files, name),
        name,
        Set(IF Has(files, name) THEN Get(files, name) ELSE <<>>,
            PyStr(IF index = NoneValue
                  THEN PyInt(Len(IF Has(files, name) THEN Get(files, name) ELSE <<>>))
                  ELSE index),
            content))

\* a delete_part_of_file that subscripts self.files, a defaultdict, with a
\* name that may be missing
delete_part_of_file_Subscripts(files, name, index) ==
    IF ~Has(files, name) THEN Set(files, name, <<>>)
    ELSE IF Has(Get(files, name), PyStr(index))
    THEN Set(files, name, Del(Get(files, name), PyStr(index)))
    ELSE files

\* VirtualFileManager.delete_part_of_file
delete_part_of_file(files, name, index) ==
    IF Has(files, name) /\ Has(Get(files, name), PyStr(index))
    THEN Set(files, name, Del(Get(files, name), PyStr(index)))
    ELSE files

\* VirtualFileManager.get_content
get_content(files, name) == IF Has(files, name) THEN Get(files, name) ELSE NoneValue

\* name.endswith(suffix)
EndsWith(name, suffix) ==
    Len(suffix) <= Len(name) /\ SubSeq(name, Len(name) - Len(suffix) + 1, Len(name)) = suffix

\* the arguments the tools are called with
FileNames == { <<"t", ".", "p", "y">>, <<"u", ".", "p", "y">>, <<"a", ".", "l", "p">> }
Fact == <<"a", ".">>
Broken == <<"a", "(">>
Contents == { Fact, Broken }
WriteIndexes == { NoneValue, PyInt(0) }
DeleteIndexes == { PyInt(0) }

\* clingo parses a text made of the fact a. and line ends, and nothing else
RECURSIVE Parses(_)
Parses(text) ==
    IF text = <<>> THEN TRUE
    ELSE IF text[1] = "\n" THEN Parses(Tail(text))
    ELSE /\ Len(text) >= Len(Fact)
         /\ SubSeq(text, 1, Len(Fact)) = Fact
         /\ Parses(SubSeq(text, Len(Fact) + 1, Len(text)))

\* _check_syntax: what clingo says of a text
CheckSyntax(content) ==
    IF Parses(content) THEN <<>> ELSE <<"Syntax error: parsing failed">>

\* "\n".join(content.values())
RECURSIVE JoinLines(_)
JoinLines(parts) ==
    IF parts = <<>> THEN <<>>
    ELSE IF Len(parts) = 1 THEN parts[1][2]
    ELSE parts[1][2] \o <<"\n">> \o JoinLines(Tail(parts))

\* a tool of the server has been called: its answer is kept
Answer(files, call, answer) ==
    vfs' = [files |-> files, before |-> vfs.files, call |-> call, answer |-> answer,
            calls |-> vfs.calls + 1, solver |-> vfs.solver, disk |-> vfs.disk]

\* the tool create_virtual_file
create_virtual_file ==
    /\ vfs.calls < MaxServerCalls
    /\ \E filename \in FileNames :
          Answer(create_file(vfs.files, filename),
                 [tool |-> "create_virtual_file", filename |-> filename,
                  content |-> <<>>, part_index |-> NoneValue],
                 Dict(<< <<Key("result"), PyText(<<"File '">> \o filename \o <<"' created.">>)>> >>))
    /\ UNCHANGED <<agent_vars, session, sandbox, messages, sys>>

\* the dict write_part_of_virtual_file returns
Written(files, filename, content) ==
    Dict(<< <<Key("result"), PyText(<<"Appended to '">> \o filename \o <<"'.">>)>> >>
         \o (IF ~EndsWith(filename, <<".", "l", "p">>) THEN <<>>
             ELSE IF CheckSyntax(content) # <<>>
             THEN << <<Key("error"), PyText(CheckSyntax(content))>> >>
             ELSE << <<Key("hint"),
                      PyText(<<"Remember to write tests for this part of your encoding.">>)>> >>)
         \o << <<Key("content"), get_content(files, filename)>> >>)

\* the tool write_part_of_virtual_file
write_part_of_virtual_file ==
    /\ vfs.calls < MaxServerCalls
    /\ \E filename \in FileNames, content \in Contents, part_index \in WriteIndexes :
          Answer(write_to_file(vfs.files, filename, content, part_index),
                 [tool |-> "write_part_of_virtual_file", filename |-> filename,
                  content |-> content, part_index |-> part_index],
                 Written(write_to_file(vfs.files, filename, content, part_index),
                         filename, content))
    /\ UNCHANGED <<agent_vars, session, sandbox, messages, sys>>

\* the tool delete_part_of_virtual_file
delete_part_of_virtual_file ==
    /\ vfs.calls < MaxServerCalls
    /\ \E filename \in FileNames, part_index \in DeleteIndexes :
          Answer(delete_part_of_file(vfs.files, filename, part_index),
                 [tool |-> "delete_part_of_virtual_file", filename |-> filename,
                  content |-> <<>>, part_index |-> part_index],
                 Dict(<< <<Key("result"), PyText(<<"Deleted part ">> \o PyStr(part_index)
                                                 \o <<" of '">> \o filename \o <<"'.">>)>>,
                         <<Key("content"),
                           get_content(delete_part_of_file(vfs.files, filename, part_index),
                                       filename)>> >>))
    /\ UNCHANGED <<agent_vars, session, sandbox, messages, sys>>

\* the error the tools give for a name that is no virtual file
NoSuchFile(filename) == <<"File '">> \o filename \o <<"' does not exist.">>

\* the tool get_virtual_file_content
get_virtual_file_content ==
    /\ vfs.calls < MaxServerCalls
    /\ \E filename \in FileNames :
          Answer(vfs.files,
                 [tool |-> "get_virtual_file_content", filename |-> filename,
                  content |-> <<>>, part_index |-> NoneValue],
                 IF ~Has(vfs.files, filename)
                 THEN Dict(<< <<Key("error"), PyText(NoSuchFile(filename))>> >>)
                 ELSE Dict(<< <<Key("content"), get_content(vfs.files, filename)>> >>))
    /\ UNCHANGED <<agent_vars, session, sandbox, messages, sys>>

\* VirtualFileManager.list_files: list(self.files.keys())
list_files(files) == List([i \in 1..Len(files) |-> PyText(files[i][1])])

\* the tool list_virtual_files
list_virtual_files ==
    /\ vfs.calls < MaxServerCalls
    /\ Answer(vfs.files,
              [tool |-> "list_virtual_files", filename |-> <<>>,
               content |-> <<>>, part_index |-> NoneValue],
              Dict(<< <<Key("files"), list_files(vfs.files)>> >>))
    /\ UNCHANGED <<agent_vars, session, sandbox, messages, sys>>

\* the lists of names check_syntax and run_clingo are called with
FileLists ==
    { <<>> } \cup { <<f>> : f \in FileNames }
             \cup { << <<"a", ".", "l", "p">>, f >> : f \in FileNames }

\* the loop of check_syntax over filenames[i..]: the first file that does
\* not exist or does not parse ends it
RECURSIVE SyntaxOf(_, _, _)
SyntaxOf(files, filenames, i) ==
    IF i > Len(filenames)
    THEN Dict(<< <<Key("result"), PyText(<<"Syntax OK">>)>> >>)
    ELSE IF ~Has(files, filenames[i])
    THEN Dict(<< <<Key("error"), PyText(NoSuchFile(filenames[i]))>> >>)
    ELSE IF CheckSyntax(JoinLines(get_content(files, filenames[i]))) # <<>>
    THEN Dict(<< <<Key("error"),
                   PyText(CheckSyntax(JoinLines(get_content(files, filenames[i]))))>> >>)
    ELSE SyntaxOf(files, filenames, i + 1)

\* the tool check_syntax; the call keeps the list of names as its content
check_syntax ==
    /\ vfs.calls < MaxServerCalls
    /\ \E filenames \in FileLists :
          Answer(vfs.files,
                 [tool |-> "check_syntax", filename |-> <<>>,
                  content |-> filenames, part_index |-> NoneValue],
                 SyntaxOf(vfs.files, filenames, 1))
    /\ UNCHANGED <<agent_vars, session, sandbox, messages, sys>>

\* the loop of run_clingo over filenames[i..] and the solving after it: a
\* file that does not exist ends it, a text clingo does not parse raises in
\* ctl.add; the program of facts a. has the one model {a}, the empty
\* program the one model {}
RECURSIVE SolveOf(_, _, _, _)
SolveOf(files, filenames, i, atoms) ==
    IF i > Len(filenames)
    THEN Dict(<< <<Key("models"),
                   Dict(<< <<Key("Answer 1"), List(atoms)>> >>)>>,
                 <<Key("statistics"), Dict(<<>>)>> >>)
    ELSE IF ~Has(files, filenames[i])
    THEN Dict(<< <<Key("error"), PyText(NoSuchFile(filenames[i]))>> >>)
    ELSE IF ~Parses(JoinLines(get_content(files, filenames[i])))
    THEN Dict(<< <<Key("error"),
                   PyText(<<"Error running clingo: parsing failed">>)>> >>)
    ELSE SolveOf(files, filenames, i + 1,
                 IF \E k \in 1..Len(get_content(files, filenames[i])) :
                       get_content(files, filenames[i])[k][2] = Fact
                 THEN <<PyText(<<"a">>)>> ELSE atoms)

\* the tool run_clingo with max_models 1 and no const_params
run_clingo ==
    /\ vfs.calls < MaxServerCalls
    /\ \E filenames \in FileLists :
          Answer(vfs.files,
                 [tool |-> "run_clingo", filename |-> <<>>,
                  content |-> filenames, part_index |-> NoneValue],
                 IF filenames = <<>>
                 THEN Dict(<< <<Key("error"), PyText(<<"No files provided.">>)>> >>)
                 ELSE SolveOf(vfs.files, filenames, 1, <<>>))
    /\ UNCHANGED <<agent_vars, session, sandbox, messages, sys>>

\* what open(name, "w") may do: open the file, or raise an OSError
OpenOutcomes(name) ==
    { NoneValue,
      Exc("PermissionError", <<"[Errno 13] Permission denied: ">> \o ReprText(name)) }

\* the text write_file_to_disk writes: every part followed by a line end
RECURSIVE DiskText(_)
DiskText(content) ==
    IF content = <<>> THEN <<>>
    ELSE content[1][2] \o <<"\n">> \o DiskText(Tail(content))

\* VirtualFileManager.write_file_to_disk: the file is opened for writing,
\* which creates or empties it, before the virtual file is looked up
write_file_to_disk(files, disk, name, opened) ==
    IF IsExc(opened) THEN [disk |-> disk, raised |-> opened]
    ELSE IF ~Has(files, name)
    THEN [disk |-> Set(disk, name, <<>>),
          raised |-> Exc("ValueError", NoSuchFile(name))]
    ELSE [disk |-> Set(disk, name, DiskText(get_content(files, name))),
          raised |-> NoneValue]

\* the tool write_virtual_file_to_disk
write_virtual_file_to_disk ==
    /\ vfs.calls < MaxServerCalls
    /\ \E filename \in FileNames : \E opened \in OpenOutcomes(filename) :
          LET written == write_file_to_disk(vfs.files, vfs.disk, filename, opened)
          IN vfs' = [files |-> vfs.files, before |-> vfs.files,
                     call |-> [tool |-> "write_virtual_file_to_disk",
                               filename |-> filename, content |-> <<>>,
                               part_index |-> NoneValue],
                     answer |-> IF IsExc(written.raised)
                                THEN Dict(<< <<Key("error"),
                                               PyText(PyStr(written.raised))>> >>)
                                ELSE Dict(<< <<Key("result"),
                                               PyText(<<"File '">> \o filename
                                                      \o <<"' written to disk.">>)>> >>),
                     calls |-> vfs.calls + 1, solver |-> vfs.solver,
                     disk |-> written.disk]
    /\ UNCHANGED <<agent_vars, session, sandbox, messages, sys>>

\* the exit codes pytest.main may give for a test file: 5 (no test was
\* collected) for a file without parts, else 0 (passed) or 1 (failed)
ExitCodes(parts) == IF parts = <<>> THEN {5} ELSE {0, 1}

\* run_test: the dict it returns when pytest.main has given exit_code
run_test(testfile, exit_code) ==
    Dict(<< <<Key("stdout"), PyText(<<"pytest: exit code ">> \o PyStr(PyInt(exit_code)))>>,
            <<Key("stderr"), PyText(<<>>)>> >>
         \o (IF exit_code = 0 THEN << <<Key("status"), PyText(<<"success">>)>> >> ELSE <<>>))

\* the names of vfs.files that end in .py, in the order of the dict
TestFiles(files) ==
    LET py == SelectSeq(files, LAMBDA e : EndsWith(e[1], <<".", "p", "y">>))
    IN [i \in 1..Len(py) |-> py[i][1]]

\* the tool run_tests; exit_codes[i] is pytest's exit code for the i-th test
\* file
run_tests ==
    /\ vfs.calls < MaxServerCalls
    /\ \E exit_codes \in [1..Len(TestFiles(vfs.files)) -> {0, 1, 5}] :
          /\ \A i \in 1..Len(exit_codes) :
                exit_codes[i] \in ExitCodes(Get(vfs.files, TestFiles(vfs.files)[i]))
          /\ Answer(vfs.files,
                    [tool |-> "run_tests", filename |-> <<>>, content |-> exit_codes,
                     part_index |-> NoneValue],
                    Dict(<< <<Key("tests"),
                              List([i \in 1..Len(exit_codes) |->
                                      run_test(TestFiles(vfs.files)[i], exit_codes[i])])>> >>))
          /\ sys' = TestStreams(sys, exit_codes, 1)
    /\ UNCHANGED <<agent_vars, session, sandbox, messages>>

ServerNext ==
    \/ create_virtual_file
    \/ write_part_of_virtual_file
    \/ delete_part_of_virtual_file
    \/ get_virtual_file_content
    \/ list_virtual_files
    \/ write_virtual_file_to_disk
    \/ check_syntax
    \/ run_clingo
    \/ run_tests

ServerSpec == Init /\ [][ServerNext]_vars

(***************************************************************************)
(* The two programs that put buffers in the place of the process's         *)
(* standard streams: the agent under main (python_exec) and the solver     *)
(* tool server (run_test).  Each behaviour runs one of them.               *)
(***************************************************************************)
AgentProcess == vfs.calls = 0 /\ Next
ServerProcess == stack = <<>> /\ calls = 0 /\ ServerNext

StreamNext == AgentProcess \/ ServerProcess

StreamSpec == Init /\ [][StreamNext]_vars

(***************************************************************************)
(* enumerate_models of resources/test_gen.py, the function the test files  *)
(* call.  The solver is its environment: it is handed the number of models *)
(* as a text, and returns that many models if the program has them and the *)
(* 20 seconds suffice.                                                     *)
(***************************************************************************)
ModelCap == 10000

\* a limit that maps 0 to the cap and leaves large numbers alone
ModelLimit_Uncapped(num_models) == IF num_models = 0 THEN ModelCap ELSE num_models

\* num_models = min(num_models, 10000); if num_models == 0: num_models = 10000
ModelLimit(num_models) ==
    IF (IF num_models <= ModelCap THEN num_models ELSE ModelCap) = 0
    THEN ModelCap
    ELSE IF num_models <= ModelCap THEN num_models ELSE ModelCap

\* ctl_args = [f"{num_models}"]
CtlArgs(num_models) == <<Digits(ModelLimit(num_models))>>

\* the numbers of models asked for, and the numbers of models a program has
NumModels == (0..MaxNumModels) \cup {ModelCap - 1, ModelCap, ModelCap + 1, 2 * ModelCap}
ModelCounts == {0, 1, 3, ModelCap, ModelCap + 1, 3 * ModelCap}

\* the models the solver has found when handle.wait(20) returns, for the
\* arguments ctl_args: all models of the program up to the number asked for
\* (0 asks for all), or none yet
Solved(ctl_args, available) ==
    IF Number(ctl_args[1]) = 0 \/ available <= Number(ctl_args[1])
    THEN {available, 0}
    ELSE {Number(ctl_args[1]), 0}

enumerate_models ==
    /\ vfs.solver.ctl_args = <<>>
    /\ \E num_models \in NumModels, available \in ModelCounts :
          \E models \in Solved(CtlArgs(num_models), available) :
             vfs' = [vfs EXCEPT !.solver = [num_models |-> num_models,
                                            ctl_args |-> CtlArgs(num_models),
                                            available |-> available,
                                            models |-> models]]
    /\ UNCHANGED <<agent_vars, session, sandbox, messages, sys>>

EnumerateSpec == Init /\ [][enumerate_models]_vars

(***************************************************************************)
(* Summarizer.compress_messages on the histories a chat can leave.         *)
(***************************************************************************)
\* ids of all messages but the last that hold tool calls, that are tool
\* answers
ToolCallMessageIds(h) == {i \in 1..(Len(h) - 1) : h[i].tool_calls # <<>>}
\* a collector of tool answers that looks at the last message too
ToolAnswerMessageIds_WithLast(h) == {i \in 1..Len(h) : h[i].role = "tool"}
ToolAnswerMessageIds(h) == {i \in 1..(Len(h) - 1) : h[i].role = "tool"}

RunTests == <<"run_tests">>
Max(S) == CHOOSE x \in S : \A y \in S : y <= x
Min(S) == CHOOSE x \in S : \A y \in S : x <= y

\* last_msg_id: the last message of the list that holds a run_tests call, 0
\* for None
LastMsgId(h) ==
    LET ids == {i \in ToolCallMessageIds(h) :
                   \E k \in 1..Len(h[i].tool_calls) : h[i].tool_calls[k].name = RunTests}
    IN IF ids = {} THEN 0 ELSE Max(ids)

\* tool_call_index: the first run_tests call of that message
ToolCallIndex(message) ==
    Min({k \in 1..Len(message.tool_calls) : message.tool_calls[k].name = RunTests})

\* last_tool_call_msg_id: the last tool answer of the list with the id of
\* that call, 0 for None
LastToolCallMsgId(h, tool_call_id) ==
    LET ids == {j \in ToolAnswerMessageIds(h) : h[j].tool_call_id = tool_call_id}
    IN IF ids = {} THEN 0 ELSE Max(ids)

\* the messages after the deletion loop, which goes through to_delete_ids
\* from the highest index down, so that each index still names the message
\* it named before the loop: a tool answer is deleted, a message with tool
\* calls loses them and is deleted if it has no content; kept is last_msg_id
Deleted(h, call_ids, answer_ids, kept) ==
    LET keep == {i \in 1..Len(h) : ~(i \in answer_ids \/ (i \in call_ids /\ h[i].content = <<>>))}
        rank(i) == Cardinality({j \in keep : j < i}) + 1
        at(r) == CHOOSE i \in keep : rank(i) = r
        left(i) == IF i \in call_ids THEN [h[i] EXCEPT !.tool_calls = <<>>]
                   ELSE IF i = kept
                   THEN [h[i] EXCEPT !.tool_calls = <<h[i].tool_calls[ToolCallIndex(h[i])]>>]
                   ELSE h[i]
    IN [r \in 1..Cardinality(keep) |-> left(at(r))]

\* Summarizer.compress_messages(messages): the list afterwards and the
\* number returned, or the ValueError of list.remove(None)
compress_messages(h) ==
    IF Len(h) <= 2 THEN [history |-> h, num |-> PyInt(0)]
    ELSE IF LastMsgId(h) = 0
    THEN [history |-> Deleted(h, ToolCallMessageIds(h), ToolAnswerMessageIds(h), 0),
          num |-> PyInt(Cardinality(ToolCallMessageIds(h)) + Cardinality(ToolAnswerMessageIds(h)))]
    ELSE IF LastToolCallMsgId(h, h[LastMsgId(h)].tool_calls[ToolCallIndex(h[LastMsgId(h)])].id) = 0
    THEN [history |-> h, num |-> Exc("ValueError", <<"list.remove(x): x not in list">>)]
    ELSE [history |->
            Deleted(h, ToolCallMessageIds(h) \ {LastMsgId(h)},
                    ToolAnswerMessageIds(h)
                      \ {LastToolCallMsgId(h, h[LastMsgId(h)].tool_calls[ToolCallIndex(h[LastMsgId(h)])].id)},
                    LastMsgId(h)),
          num |-> PyInt(Cardinality(ToolCallMessageIds(h)) + Cardinality(ToolAnswerMessageIds(h)) - 2)]

\* the id of the k-th tool call of the message at position i
CallId(i, k) == <<"call_">> \o Digits(i) \o <<"_">> \o Digits(k)
ToolCall(i, k, name) == [id |-> CallId(i, k), name |-> name]

\* the ids of the tool calls of h that no tool message of h answers
Unanswered(h) ==
    UNION {{h[i].tool_calls[k].id : k \in 1..Len(h[i].tool_calls)} : i \in 1..Len(h)}
        \ {h[j].tool_call_id : j \in 1..Len(h)}

\* the messages a chat may add to the history h: a user turn, an assistant
\* turn without tool calls, with one tool call and no content, with two tool
\* calls and content, and the answer to a tool call that has none yet
NextMessages(h) ==
    { ChatMessage("user", <<"q">>, <<>>, <<>>),
      ChatMessage("assistant", <<"ok">>, <<>>, <<>>),
      ChatMessage("assistant", <<>>, <<ToolCall(Len(h) + 1, 1, RunTests)>>, <<>>),
      ChatMessage("assistant", <<>>, <<ToolCall(Len(h) + 1, 1, <<"run_clingo">>)>>, <<>>),
      ChatMessage("assistant", <<"let me test">>,
                  <<ToolCall(Len(h) + 1, 1, <<"run_clingo">>),
                    ToolCall(Len(h) + 1, 2, RunTests)>>, <<>>) }
    \cup { ChatMessage("tool", <<"{}">>, <<>>, id) : id \in Unanswered(h) }

\* LLMClient.add_message, and the append of get_response
AddMessage ==
    /\ messages.pc = "CHAT"
    /\ Len(messages.history) < MaxMessages
    /\ \E message \in NextMessages(messages.history) :
          messages' = [messages EXCEPT !.history = Append(@, message)]
    /\ UNCHANGED <<agent_vars, session, sandbox, vfs, sys>>

\* Summarizer.compress_messages(history)
Compress ==
    /\ messages.pc = "CHAT"
    /\ messages' = [pc |-> "COMPRESSED",
                    history |-> compress_messages(messages.history).history,
                    before |-> messages.history,
                    num |-> compress_messages(messages.history).num]
    /\ UNCHANGED <<agent_vars, session, sandbox, vfs, sys>>

SummarizerNext == AddMessage \/ Compress

SummarizerSpec == Init /\ [][SummarizerNext]_vars

(***************************************************************************)
(* One gateway to the chat-completion service under any sequence of calls  *)
(* of its methods: ask of core/llm.py, and add_message, get_response and   *)
(* clear_history of the two LLMClient classes.  The three classes keep the *)
(* same history, a list that starts as [system message]; the gateway here  *)
(* has the methods of all of them.                                         *)
(***************************************************************************)
\* the initial prompt of the gateway of NewMessages
InitialPrompt == <<"prompt">>

\* a gateway whose clear_history leaves an empty list
clear_history_Empties(initial_prompt) == <<>>

\* LLMClient.clear_history: self.history = [system message]
clear_history(initial_prompt) ==
    <<ChatMessage("system", initial_prompt, <<>>, <<>>)>>

\* LLM.ask(msg): the user message is appended, then generate_response
\* appends the reply, or nothing when the request fails
GatewayAsk ==
    /\ messages.pc = "CHAT"
    /\ Len(messages.history) + 2 <= MaxMessages
    /\ \E outcome \in {Reply(<<"ok">>), Failure} :
          messages' = [messages EXCEPT !.history =
              Append(@, ChatMessage("user", <<"q">>, <<>>, <<>>))
              \o (IF outcome.ok
                  THEN <<ChatMessage("assistant", outcome.content, <<>>, <<>>)>>
                  ELSE <<>>)]
    /\ UNCHANGED <<agent_vars, session, sandbox, vfs, sys>>

\* LLMClient.add_message(message): a dict (here of the user or of a tool)
\* is appended; something that is no dict and has neither model_dump nor
\* dict raises ValueError and nothing is appended
GatewayAddMessage ==
    /\ messages.pc = "CHAT"
    /\ Len(messages.history) < MaxMessages
    /\ \/ \E message \in { ChatMessage("user", <<"q">>, <<>>, <<>>) }
                \cup { ChatMessage("tool", <<"{}">>, <<>>, id) : id \in Unanswered(messages.history) } :
             messages' = [messages EXCEPT !.history = Append(@, message),
                                          !.num = NoneValue]
       \/ messages' = [messages EXCEPT !.num =
             Exc("ValueError", <<"Message must be a dict or have model_dump/dict method.">>)]
    /\ UNCHANGED <<agent_vars, session, sandbox, vfs, sys>>

\* LLMClient.get_response(): the message of the reply is appended, or the
\* request raises and nothing is appended
GatewayGetResponse ==
    /\ messages.pc = "CHAT"
    /\ Len(messages.history) < MaxMessages
    /\ \/ \E message \in { ChatMessage("assistant", <<"ok">>, <<>>, <<>>),
                           ChatMessage("assistant", <<>>,
                                       <<ToolCall(Len(messages.history) + 1, 1, RunTests)>>, <<>>) } :
             messages' = [messages EXCEPT !.history = Append(@, message),
                                          !.num = NoneValue]
       \/ messages' = [messages EXCEPT !.num = Exc("APIError", <<"Connection error.">>)]
    /\ UNCHANGED <<agent_vars, session, sandbox, vfs, sys>>

\* LLMClient.clear_history()
ClearHistory ==
    /\ messages.pc = "CHAT"
    /\ messages' = [messages EXCEPT !.history = clear_history(InitialPrompt),
                                    !.before = messages.history]
    /\ UNCHANGED <<agent_vars, session, sandbox, vfs, sys>>

GatewayNext == GatewayAsk \/ GatewayAddMessage \/ GatewayGetResponse \/ ClearHistory

GatewaySpec == Init /\ [][GatewayNext]_vars

(***************************************************************************)
(* Properties.                                                             *)
(***************************************************************************)
TopNext == stack'[Len(stack')]
\* a step inside one ask invocation: no ask starts or returns
SameAsk == Running /\ Len(stack') = Len(stack)
IsPrefix(s, t) == Len(s) <= Len(t) /\ SubSeq(t, 1, Len(s)) = s
LastOf(h) == h[Len(h)]
\* the decision the running ask holds names this recipient
DecisionFor(f, recipient) ==
    /\ PyEq(Recipient(f), PyText(recipient))
    /\ ~IsExc(ContentValue(f))
\* the text of a (text, role) pair
TurnText(turn) == turn.val[1].val
TurnRole(turn) == turn.val[2].val

\* C1: a decision with recipient "self" reaches the history of the agent's
\* gateway as a message of role "assistant" whose content is the decision's
\* content.
C1_SelfTurnIsAssistantMessage ==
    [][(/\ Running
        /\ Top.pc = "AWAITING_MODEL"
        /\ DecisionFor(Top, SELF)
        /\ PyEq(Top.message_to_self, Turn(Content(Top), "assistant"))
        /\ agents' # agents)
       => /\ agents'[Top.agent].llm[Len(agents[Top.agent].llm) + 1].role = "assistant"
          /\ PyEq(agents'[Top.agent].llm[Len(agents[Top.agent].llm) + 1].content,
                  PyText(Content(Top)))]_vars

\* the caller results of every ask in progress are only ever extended, and a
\* decision for "caller" appends its content
CallerResultsAppendOnly ==
    /\ \A i \in 1..Len(stack) :
          i <= Len(stack') =>
              IsPrefix(stack[i].messages_to_caller, stack'[i].messages_to_caller)
    /\ SameAsk =>
          TopNext.messages_to_caller =
              IF Top.pc = "HAVE_DECISION" /\ DecisionFor(Top, CALLER) /\ stack' # stack
              THEN Append(Top.messages_to_caller, Content(Top))
              ELSE Top.messages_to_caller

SaidYes(h) ==
    /\ LastOf(h).role = "assistant"
    /\ PyEval(LastOf(h).content.val).ty = "str"
    /\ Contains(Lower(PyEval(LastOf(h).content.val).val), YES)

\* C3: ask reaches DONE only from a completion check that answered yes; the
\* completion check is entered only with no self-message pending; after a
\* dispatch the model is asked again exactly when a self-message exists.
C3_LoopControl ==
    [][SameAsk =>
        /\ (TopNext.pc = "DONE" /\ Top.pc # "DONE") =>
              /\ Top.pc = "CHECKING_COMPLETION"
              /\ Len(agents'[Top.agent].llm_finished) > Len(agents[Top.agent].llm_finished)
              /\ SaidYes(agents'[Top.agent].llm_finished)
        /\ (TopNext.pc = "CHECKING_COMPLETION" /\ Top.pc # "CHECKING_COMPLETION") =>
              /\ Top.pc = "DISPATCHED"
              /\ Top.message_to_self.ty = "NoneType"
        /\ (Top.pc = "CHECKING_COMPLETION") => Top.message_to_self.ty = "NoneType"
        /\ (Top.pc = "DISPATCHED" /\ stack' # stack) =>
              /\ TopNext.pc \in {"AWAITING_MODEL", "CHECKING_COMPLETION"}
              /\ TopNext.pc = "AWAITING_MODEL" <=> Top.message_to_self.ty # "NoneType"
              /\ TopNext.message_to_self = Top.message_to_self]_vars

\* an ask is done after a decision for "caller", in its second round with
\* the model at least
C3_Witness ==
    /\ Running
    /\ Top.pc = "DONE"
    /\ DecisionFor(Top, CALLER)
    /\ Len(agents[Top.agent].llm) >= 5

\* C4: the completion oracle answers true if its raw reply contains "yes" in
\* any letter case, and false for every other reply.
C4_YesIffReplyContainsYes ==
    [][(/\ Running
        /\ Top.pc = "CHECKING_COMPLETION"
        /\ agents' # agents
        /\ LastOf(agents'[Top.agent].llm_finished).role = "assistant")
       => /\ raised' = raised
          /\ TopNext.pc =
               IF Contains(Lower(LastOf(agents'[Top.agent].llm_finished).content.val), YES)
               THEN "DONE" ELSE "AWAITING_MODEL"]_vars

\* C5: every consultation of the completion oracle carries the task that was
\* passed to ask, followed by the caller results so far.
C5_OracleGetsOriginalTask ==
    [][(/\ Running
        /\ Top.pc = "CHECKING_COMPLETION"
        /\ agents' # agents)
       => LET h == agents'[Top.agent].llm_finished
              m == h[Len(agents[Top.agent].llm_finished) + 1].content
          IN  /\ TurnText(m.val[1]) = Top.task
              /\ \A i \in 1..Len(Top.messages_to_caller) :
                    TurnText(m.val[i + 1]) = Top.messages_to_caller[i]]_vars

\* the reply text is a decision in the format the system prompt asks for
WellFormed(reply) ==
    /\ PyEval(reply).ty = "dict"
    /\ ~IsExc(Subscript(PyEval(reply), RECIPIENT))
    /\ ~IsExc(Subscript(PyEval(reply), CONTENT))

\* the last reply of the running agent's main model
LastReply == LastOf(agents[Top.agent].llm)

\* C6: a reply that cannot be parsed is not dispatched but answered with the
\* correction prompt, and the first well-formed decision that arrives is
\* dispatched.
C6_FirstWellFormedDispatched ==
    [][(/\ Running
        /\ Top.pc = "PARSING"
        /\ LastReply.role = "assistant"
        /\ stack' # stack \/ agents' # agents)
       => IF WellFormed(LastReply.content.val)
          THEN /\ TopNext.pc = "HAVE_DECISION"
               /\ PyEq(TopNext.answer, PyEval(LastReply.content.val))
          ELSE IsExc(PyEval(LastReply.content.val)) =>
                  /\ TopNext.pc = "PARSING"
                  /\ Len(agents'[Top.agent].llm) > Len(agents[Top.agent].llm)]_vars

\* C7: no failure to read a decision out of a reply makes ask raise.
C7_ParsingNeverRaises ==
    ~(/\ stack # <<>>
      /\ Top.pc \in {"PARSING", "HAVE_DECISION"}
      /\ raised.ty = "exc"
      /\ raised.val.cls \in {"SyntaxError", "NameError", "TypeError", "KeyError"})

\* the decision asks to evaluate or execute content that raises an error
FailingCode(f) ==
    /\ DecisionFor(f, PYTHON_EVAL) \/ DecisionFor(f, PYTHON_EXEC)
    /\ Caught(PyEval(Content(f)))

\* C8: an error raised by python_eval or python_exec content does not leave
\* ask; the self-message holds the failed text and the error's description
\* (division by zero for 1/0), and the loop goes on with it.
C8_CodeErrorsBecomeSelfMessages ==
    (stack # <<>> /\ FailingCode(Top)) =>
        /\ Top.pc = "HAVE_DECISION" => raised.ty = "NoneType"
        /\ Top.pc \in {"DISPATCHED", "AWAITING_MODEL"} =>
              /\ Top.message_to_self.ty = "tuple"
              /\ TurnRole(Top.message_to_self) = <<"assistant">>
              /\ Contains(TurnText(Top.message_to_self), Content(Top))
              /\ Contains(TurnText(Top.message_to_self), PyStr(PyEval(Content(Top))))
              /\ Content(Top) = DivByZero =>
                    Contains(TurnText(Top.message_to_self), <<"division by zero">>)

\* python_eval of 1/0 has been dispatched and the model is about to be asked
\* with the error message
C8_Witness ==
    /\ Running
    /\ Top.pc = "AWAITING_MODEL"
    /\ DecisionFor(Top, PYTHON_EVAL)
    /\ Content(Top) = DivByZero
    /\ Contains(TurnText(Top.message_to_self), <<"division by zero">>)

\* C9: handling a decision for "clear" leaves the agent's gateway with the
\* system message alone.
C9_ClearLeavesSystemMessage ==
    [][(/\ Running
        /\ Top.pc = "HAVE_DECISION"
        /\ DecisionFor(Top, CLEAR)
        /\ vars' # vars)
       => /\ raised' = raised
          /\ Len(agents'[Top.agent].llm) = 1
          /\ agents'[Top.agent].llm[1].role = "system"]_vars

\* C10: a gateway ask that gets a reply appends the turns it was given, each
\* as a message of its own role and text, then the reply as one assistant
\* message, and leaves the earlier messages alone.
C10_AskAppendsTurnsAndReply ==
    [][(/\ Running
        /\ Top.pc = "AWAITING_MODEL"
        /\ agents' # agents
        /\ LastOf(agents'[Top.agent].llm).role = "assistant")
       => LET old == agents[Top.agent].llm
              new == agents'[Top.agent].llm
          IN  /\ Len(new) = Len(old) + 2
              /\ SubSeq(new, 1, Len(old)) = old
              /\ <<new[Len(old) + 1].role>> = TurnRole(Top.message_to_self)
              /\ PyEq(new[Len(old) + 1].content, PyText(TurnText(Top.message_to_self)))]_vars

\* the text of the error message in the dict LLM.ask returns when it could
\* not evaluate the answer; the empty text for every other value
ErrorText(v) ==
    IF v.ty = "dict" /\ Len(v.val) = 1 /\ v.val[1][1] = <<"m", "e", "s", "s", "a", "g", "e", "s">>
    THEN v.val[1][2].val[1].val[2][2].val
    ELSE <<>>

\* the value holds the text generate_response makes of a failed request
HoldsSentinel(v) == Contains(ErrorText(v), LLMErrorText(Failure.content))

\* the main model of the running agent is asked and the request fails:
\* the history ends with the message of the request
FailedRequest ==
    /\ Running
    /\ Top.pc \in {"AWAITING_MODEL", "PARSING"}
    /\ agents' # agents
    /\ LastOf(agents'[Top.agent].llm).role = "user"

SaidNo(h) ==
    /\ LastOf(h).role = "assistant"
    /\ PyEval(LastOf(h).content.val).ty = "str"
    /\ ~Contains(Lower(PyEval(LastOf(h).content.val).val), YES)

\* the decision of the running ask names another agent and the distinctness
\* oracle is being consulted about it
Forwarding ==
    /\ Running
    /\ Top.pc = "HAVE_DECISION"
    /\ ~IsLocal(Top, Recipient(Top), ContentValue(Top))
    /\ agents' # agents

\* C12: when the distinctness oracle answers that the task is not different,
\* no agent is constructed, no ask starts, the registry of children is as it
\* was, and the next self-message is the instruction to do it yourself.
C12_NotDifferentIsNotForwarded ==
    [][(Forwarding /\ SaidNo(agents'[Top.agent].llm_new_task))
       => /\ constructed' = constructed
          /\ DOMAIN agents' = DOMAIN agents
          /\ \A id \in DOMAIN agents : agents'[id].agents = agents[id].agents
          /\ Len(stack') = Len(stack)
          /\ raised' = raised
          /\ TopNext.pc = "DISPATCHED"
          /\ TopNext.message_to_self.ty = "tuple"
          /\ Contains(TurnText(TopNext.message_to_self),
                      <<"Skipping message to ">> \o Recipient(Top).val
                      \o <<" as it is not a new task. Do it yourself.">>)]_vars

\* the model is about to be asked with the instruction to do it yourself,
\* after a decision for agent_helper
C12_Witness ==
    /\ Running
    /\ Top.pc = "AWAITING_MODEL"
    /\ DecisionFor(Top, HelperName)
    /\ SaidNo(agents[Top.agent].llm_new_task)
    /\ agents[Top.agent].agents = {}
    /\ Contains(TurnText(Top.message_to_self), <<" as it is not a new task. Do it yourself.">>)

\* C13: the distinctness check compares the forwarded content with the task
\* that was passed to ask, also after a "not complete" round.
C13_DistinctnessGetsOriginalTask ==
    [][Forwarding
       => LET h == agents'[Top.agent].llm_new_task
              m == h[Len(agents[Top.agent].llm_new_task) + 1].content
          IN  /\ TurnText(m.val[1]) = Top.task
              /\ TurnText(m.val[2]) = Content(Top)]_vars

\* C14: a child agent is constructed only at the first forward to its name;
\* a later forward to the same name constructs no agent and asks the
\* registered child, which has kept its history.
C14_ChildConstructedOnce ==
    [][(/\ Forwarding
        /\ Len(stack') = Len(stack) + 1)
       => LET child == Append(Top.agent, Recipient(Top).val)
          IN  /\ TopNext.agent = child
              /\ IF Recipient(Top).val \in agents[Top.agent].agents
                 THEN /\ constructed' = constructed
                      /\ agents'[child] = agents[child]
                 ELSE /\ constructed' = constructed + 1
                      /\ agents'[child] = NewAgent(child)]_vars

\* the name of the agent whose ask is running
OwnName == Top.agent[Len(Top.agent)]

\* C15: a decision whose recipient is the agent's own name is handled as one
\* for "self": its content becomes the next self-message with role
\* "assistant", no oracle is consulted, no agent is constructed or asked.
C15_OwnNameIsSelf ==
    [][(/\ Running
        /\ Top.pc = "HAVE_DECISION"
        /\ DecisionFor(Top, OwnName)
        /\ vars' # vars)
       => /\ agents' = agents
          /\ calls' = calls
          /\ constructed' = constructed
          /\ raised' = raised
          /\ Len(stack') = Len(stack)
          /\ TopNext.pc = "DISPATCHED"
          /\ PyEq(TopNext.message_to_self, Turn(Content(Top), "assistant"))
          /\ TopNext.message_to_self = Handle(OwnName, SELF, Content(Top))
          /\ TopNext.messages_to_caller = Top.messages_to_caller]_vars

\* the model is about to be asked with the content of a decision that named
\* the agent itself
C15_Witness ==
    /\ Running
    /\ Top.pc = "AWAITING_MODEL"
    /\ DecisionFor(Top, OwnName)
    /\ PyEq(Top.message_to_self, Turn(Hi, "assistant"))
    /\ agents[Top.agent].agents = {}

\* C16: whenever the completion oracle answers "not complete", ask does not
\* return: the corrective instruction becomes the next self-message and the
\* model is asked again, however many such rounds there have been; ask is
\* done only after an answer that reads as yes.
C16_NotCompleteLoops ==
    [][/\ (/\ Running
           /\ Top.pc = "CHECKING_COMPLETION"
           /\ agents' # agents
           /\ SaidNo(agents'[Top.agent].llm_finished))
          => /\ raised' = raised
             /\ result' = result
             /\ Len(stack') = Len(stack)
             /\ TopNext.pc = "AWAITING_MODEL"
             /\ PyEq(TopNext.message_to_self, Turn(NotCompleteMsg, "user"))
             /\ TopNext.messages_to_caller = Top.messages_to_caller
       /\ (SameAsk /\ TopNext.pc = "DONE")
          => SaidYes(agents'[Top.agent].llm_finished)]_vars

\* the completion oracle has answered "not complete" twice in one ask and
\* the model is about to be asked again
C16_Witness ==
    /\ Running
    /\ Top.pc = "AWAITING_MODEL"
    /\ PyEq(Top.message_to_self, Turn(NotCompleteMsg, "user"))
    /\ Len(agents[Top.agent].llm_finished) = 5
    /\ SaidNo(agents[Top.agent].llm_finished)
    /\ SaidNo(SubSeq(agents[Top.agent].llm_finished, 1, 3))

\* the first ask of the root agent got the task "echo hello"; its model
\* decided for self with "hello", then for caller with "hello"; the
\* completion oracle replied "Yes, done."
EchoScenarioPlayed ==
    /\ Len(stack) = 1
    /\ result = NoneValue
    /\ Top.task = EchoHello
    /\ Len(agents[Root].llm) = 5
    /\ agents[Root].llm[3] = Message("assistant", PyText(Quoted(DecisionText(SELF, Hello))))
    /\ agents[Root].llm[5] = Message("assistant", PyText(Quoted(DecisionText(CALLER, Hello))))
    /\ Len(agents[Root].llm_finished) = 3
    /\ agents[Root].llm_finished[3] = Message("assistant", PyText(YesDone))

\* C17: in that scenario ask has made two model calls and one oracle call and
\* is done, returning the caller results ['hello'].
C17_EchoHelloReturns ==
    EchoScenarioPlayed =>
        /\ raised.ty = "NoneType"
        /\ calls = 3
        /\ Top.pc = "DONE"
        /\ PyEq(Top.returned, List(<<PyText(Hello)>>))

\* the messages of the request that history h shows last: h without the
\* reply, if the request was answered
LastRequest(h) ==
    IF LastOf(h).role = "assistant" THEN SubSeq(h, 1, Len(h) - 1) ELSE h

\* C18: the request of a completion check holds the evaluation prompt and
\* one message with the task and the answers, and nothing of an earlier
\* consultation.
C18_OracleIsOneShot ==
    [][(/\ Running
        /\ Top.pc = "CHECKING_COMPLETION"
        /\ agents' # agents)
       => LET request == LastRequest(agents'[Top.agent].llm_finished)
          IN  /\ Len(request) = 2
              /\ request[1] = Message("system", PyText(FinishedPrompt))
              /\ request[2] = Message("user", CompletedTurns(Top.msg, Top.messages_to_caller))]_vars

\* the tool_call_id of a tool message
ToolCallIdOf(message) == Subscript(message, Key("tool_call_id")).val
\* the role of a message of the session
RoleOf(message) == Subscript(message, Key("role")).val

\* the session is processing an assistant turn and takes a step that is
\* not the user's interrupt
ProcessingStep ==
    /\ session.pc = "PROCESSING"
    /\ session' # session
    /\ session'.pc # "RETURNED"

\* C19: the tool calls of a turn are handled one after the other in the
\* order received, the i-th step adding one tool message with the id of the
\* i-th call, and the turn ends with as many tool messages as calls.
C19_ToolCallsInOrder ==
    [][ProcessingStep =>
        IF session.next <= Len(session.tool_calls)
        THEN /\ session'.pc = "PROCESSING"
             /\ session'.next = session.next + 1
             /\ Len(session'.tool_result_messages) = session.next
             /\ SubSeq(session'.tool_result_messages, 1, session.next - 1)
                    = session.tool_result_messages
             /\ RoleOf(session'.tool_result_messages[session.next]) = <<"tool">>
             /\ ToolCallIdOf(session'.tool_result_messages[session.next])
                    = session.tool_calls[session.next].id
        ELSE /\ session'.pc = "GET_RESPONSE"
             /\ Len(session.tool_result_messages) = Len(session.tool_calls)
             /\ \A k \in 1..Len(session.tool_calls) :
                   ToolCallIdOf(session.tool_result_messages[k]) = session.tool_calls[k].id]_vars

\* C20: in the loop of the session no step but the user's interrupt ends
\* the session: a failing tool, an unknown tool, arguments that are not
\* JSON and a failing model request leave it running, with no exception
\* leaving start.
C20_OnlyInterruptEndsSession ==
    [][(/\ session.pc \in {"GET_RESPONSE", "PROCESSING"}
        /\ session' # session)
       => /\ session'.pc \in {"GET_RESPONSE", "PROCESSING", "RETURNED"}
          /\ session'.error = NoneValue]_vars

\* the chat session stands in the loop of ChatSession.start
InLoop(s) == s.pc \in {"GET_RESPONSE", "PROCESSING"}

C21_MainWitness ==
    /\ main.pc = "EXITED"
    /\ main.signal = KeyboardInterrupt
    /\ Len(stack) = 2

\* the member of the dict "output" the tool serialized
OutputField(name) == Subscript(sandbox.output, Key(name))

\* C22: execute_bash_command and execute_python_code never raise: whatever
\* the code and the outcome of the process, they return the JSON text of a
\* result with the members stdout, stderr, returncode and success, success
\* being true iff returncode is 0; a timeout is reported with the text
\* "Timeout expired", a return code that is a number other than 0, and
\* success false.
C22_AlwaysStructuredResult ==
    sandbox.pc = "RETURNED" =>
        /\ ~IsExc(sandbox.returned)
        /\ \E indent \in {0, 2} : sandbox.returned = JsonDumps(sandbox.output, indent)
        /\ [k \in 1..Len(sandbox.output.val) |-> sandbox.output.val[k][1]]
             = <<Key("stdout"), Key("stderr"), Key("returncode"), Key("success")>>
        /\ OutputField("success").ty = "bool"
        /\ OutputField("success").val <=> PyEq(OutputField("returncode"), PyInt(0))
        /\ sandbox.outcome.kind = "timeout" =>
              /\ OutputField("returncode").ty = "int"
              /\ OutputField("returncode").val # 0
              /\ ~OutputField("success").val
              /\ OutputField("stderr") = PyText(<<"Timeout expired">>)

\* the parts of a file in a store, none if the file is not there
PartsOf(files, name) == IF Has(files, name) THEN Get(files, name) ELSE <<>>

\* C23: whenever write_part_of_virtual_file is called with part_index None,
\* after whatever calls came before, the file has one part more than before
\* the call and every part it had is still there with the content it had.
C23_AppendUsesFreshIndex ==
    vfs.call.tool = "write_part_of_virtual_file" /\ vfs.call.part_index = NoneValue =>
        /\ Len(PartsOf(vfs.files, vfs.call.filename))
             = Len(PartsOf(vfs.before, vfs.call.filename)) + 1
        /\ \A i \in 1..Len(PartsOf(vfs.before, vfs.call.filename)) :
              LET part == PartsOf(vfs.before, vfs.call.filename)[i]
              IN /\ Has(PartsOf(vfs.files, vfs.call.filename), part[1])
                 /\ Get(PartsOf(vfs.files, vfs.call.filename), part[1]) = part[2]

\* C24: after create_virtual_file is called for a name, the file of that
\* name exists and has no parts, and every other name has the file it had
\* before the call, or none as before.
C24_CreateOverwrites ==
    vfs.call.tool = "create_virtual_file" =>
        /\ Has(vfs.files, vfs.call.filename)
        /\ Get(vfs.files, vfs.call.filename) = <<>>
        /\ \A name \in FileNames \ {vfs.call.filename} :
              /\ Has(vfs.files, name) <=> Has(vfs.before, name)
              /\ PartsOf(vfs.files, name) = PartsOf(vfs.before, name)
        /\ ~IsExc(Subscript(vfs.answer, Key("result")))

\* create_virtual_file has been called for a file that had parts, next to
\* another file that has parts
C24_Witness ==
    /\ vfs.call.tool = "create_virtual_file"
    /\ PartsOf(vfs.before, vfs.call.filename) # <<>>
    /\ Get(vfs.files, vfs.call.filename) = <<>>
    /\ \E name \in FileNames \ {vfs.call.filename} : PartsOf(vfs.files, name) # <<>>

\* the results run_tests has returned
TestResults == Subscript(vfs.answer, Key("tests")).val

\* C25: run_tests returns one result for each file whose name ends in .py, in
\* the order of the store, and none for any other file; each result holds
\* stdout and stderr, and a status that is 'success' if pytest's exit code
\* for the file is 0 and 'error' if it is not.
C25_OneResultPerTestFile ==
    vfs.call.tool = "run_tests" =>
        /\ Len(TestResults)
             = Cardinality({name \in FileNames :
                               Has(vfs.files, name) /\ EndsWith(name, <<".", "p", "y">>)})
        /\ \A i \in 1..Len(TestResults) :
              /\ ~IsExc(Subscript(TestResults[i], Key("stdout")))
              /\ ~IsExc(Subscript(TestResults[i], Key("stderr")))
              /\ Subscript(TestResults[i], Key("status"))
                   = PyText(IF vfs.call.content[i] = 0 THEN <<"success">> ELSE <<"error">>)

HasRunTestsCall(h) == Len(h) > 2 /\ LastMsgId(h) # 0

\* C27: when a message before the last one holds a run_tests call,
\* compress_messages returns, and afterwards the messages before the last
\* hold one tool call, the run_tests call of the last message that held
\* one, and one tool answer, the answer to that call, wherever it stood in
\* the history, the last position included.
C27_KeepsLastRunTests ==
    messages.pc = "COMPRESSED" /\ HasRunTestsCall(messages.before) =>
        LET h == messages.history
            b == messages.before
            call == b[LastMsgId(b)].tool_calls[ToolCallIndex(b[LastMsgId(b)])]
        IN /\ ~IsExc(messages.num)
           /\ \E i \in 1..(Len(h) - 1) :
                 /\ h[i].tool_calls = <<call>>
                 /\ \A j \in 1..(Len(h) - 1) : j # i => h[j].tool_calls = <<>>
           /\ \E i \in 1..Len(h) : h[i].role = "tool" /\ h[i].tool_call_id = call.id
           /\ \A j \in 1..(Len(h) - 1) : h[j].role = "tool" => h[j].tool_call_id = call.id

\* C28: for every num_models >= 0 the solver is handed num_models itself if
\* it is between 1 and 10000, and 10000 if it is 0 or larger than 10000; no
\* more than 10000 models are returned.
C28_LimitIsCapped ==
    vfs.solver.ctl_args # <<>> /\ vfs.solver.num_models >= 0 =>
        /\ Number(vfs.solver.ctl_args[1])
             = (IF vfs.solver.num_models = 0 \/ vfs.solver.num_models > 10000
                THEN 10000 ELSE vfs.solver.num_models)
        /\ Len(vfs.solver.ctl_args) = 1
        /\ vfs.solver.models <= 10000

\* more than 10000 models were asked for of a program that has more, and
\* 10000 were returned
C28_Witness ==
    /\ vfs.solver.num_models > 10000
    /\ vfs.solver.available > 10000
    /\ vfs.solver.ctl_args = << <<"1", "0", "0", "0", "0">> >>
    /\ vfs.solver.models = 10000

\* C29: with models that stall only finitely often (finitely many malformed
\* replies, self-messages, delegations and "no" verdicts, then a decision
\* and "yes"), an ask of the root agent stops only by returning its result
\* to main: a state in which it has stopped by an exception is one from
\* which it never returns.
C29_AskStopsOnlyByReturning ==
    Running \/ (stack = <<>> /\ raised = NoneValue)

\* the same as a property of the fair behaviours: every ask that has
\* started eventually returns
C29_AskEventuallyReturns ==
    (stack # <<>>) ~> (stack = <<>> /\ result # NoneValue /\ raised = NoneValue)

\* the requests of an ask stay below PatientLimit, so that no ask stops for
\* want of requests
C29_LimitNotReached == calls < PatientLimit

\* C30: handling a decision for "clear" raises nothing, resets the main
\* gateway of the agent to its system message, leaves no self-message (so
\* that the inner loop ends and the completion check is next), and leaves
\* alone the results gathered for the caller, the registry of children, the
\* two oracle gateways and every other agent.
C30_ClearResetsOnlyMainHistory ==
    [][(/\ Running
        /\ Top.pc = "HAVE_DECISION"
        /\ DecisionFor(Top, CLEAR)
        /\ vars' # vars)
       => /\ Running'
          /\ Len(stack') = Len(stack)
          /\ Top'.pc = "DISPATCHED"
          /\ Top'.message_to_self = NoneValue
          /\ Top'.messages_to_caller = Top.messages_to_caller
          /\ DOMAIN agents' = DOMAIN agents
          /\ agents'[Top.agent].llm = <<agents[Top.agent].llm[1]>>
          /\ agents'[Top.agent].agents = agents[Top.agent].agents
          /\ agents'[Top.agent].llm_finished = agents[Top.agent].llm_finished
          /\ agents'[Top.agent].llm_new_task = agents[Top.agent].llm_new_task
          /\ \A other \in DOMAIN agents \ {Top.agent} :
                agents'[other] = agents[other]]_vars

\* the part of C30 the code keeps: a "clear" decision changes no result
\* gathered for the caller and no agent (their registries, their gateways)
C30_ClearChangesNoAgent ==
    [][(/\ Running
        /\ Top.pc = "HAVE_DECISION"
        /\ DecisionFor(Top, CLEAR)
        /\ vars' # vars)
       => /\ agents' = agents
          /\ stack' = stack]_vars

\* C31: the registry of children of every agent holds none of the labels
\* "self", "caller", "clear", "python_eval", "python_exec" and not the
\* agent's own name; and it only grows: every agent stays, every registered
\* name stays registered, and the agent registered under a name is the one
\* registered before (its gateways keep their messages, its own registry
\* its names).
C31_RegistryGrowsWithoutLabels ==
    /\ [](\A id \in DOMAIN agents :
            /\ agents[id].agents \cap LocalRecipients = {}
            /\ id[Len(id)] \notin agents[id].agents
            /\ \A name \in agents[id].agents : Append(id, name) \in DOMAIN agents)
    /\ [][\A id \in DOMAIN agents :
            /\ id \in DOMAIN agents'
            /\ agents[id].agents \subseteq agents'[id].agents
            /\ IsPrefix(agents[id].llm, agents'[id].llm)
            /\ IsPrefix(agents[id].llm_finished, agents'[id].llm_finished)
            /\ IsPrefix(agents[id].llm_new_task, agents'[id].llm_new_task)]_vars

\* a child that has answered a task before is asked a second task: the ask
\* of the registered child starts with its earlier messages in its gateway
C31_Witness ==
    /\ Running
    /\ Len(stack) = 2
    /\ Top.pc = "AWAITING_MODEL"
    /\ Top.message_to_self = Turn(Top.task, "user")
    /\ Top.agent[Len(Top.agent)] \in agents[stack[1].agent].agents
    /\ Len(agents[Top.agent].llm) >= 3

\* C32: whatever methods of a gateway have been called, its history is not
\* empty and its first message is the system message with the initial
\* prompt.
C32_HistoryStartsWithSystemMessage ==
    /\ messages.history # <<>>
    /\ messages.history[1] = ChatMessage("system", InitialPrompt, <<>>, <<>>)

\* the history has been cleared when it held messages of a user, of the
\* model and of a tool, and grew again afterwards
C32_Witness ==
    /\ Len(messages.before) >= 4
    /\ \E i \in 1..Len(messages.before) : messages.before[i].role = "tool"
    /\ Len(messages.history) >= 2

\* a step that handles a decision for python_exec
ExecStep ==
    /\ Running
    /\ Top.pc = "HAVE_DECISION"
    /\ DecisionFor(Top, PYTHON_EXEC)
    /\ vars' # vars
\* a step of the tool run_tests in which run_test runs a test file
TestStep ==
    /\ vfs'.calls = vfs.calls + 1
    /\ vfs'.call.tool = "run_tests"
    /\ Len(vfs'.call.content) > 0

\* C33: python_exec leaves sys.stdout and sys.stderr as it found them,
\* whether the script ran to its end or raised, and so does run_test of
\* the solver tool server.
C33_StreamsRestored ==
    [][(ExecStep \/ TestStep) => sys' = sys]_vars

\* python_exec has answered with the error of a script that raised
C33_Witness ==
    /\ Running
    /\ Top.pc = "DISPATCHED"
    /\ DecisionFor(Top, PYTHON_EXEC)
    /\ Content(Top) = DivByZero
    /\ Contains(TurnText(Top.message_to_self),
                <<"[Error ", "executing", " python function: ">>)
    /\ sys = NewSys

\* run_tests has run two test files, one passed and one failed
C33_TestWitness ==
    /\ vfs.call.tool = "run_tests"
    /\ Len(vfs.call.content) = 2
    /\ vfs.call.content[1] # vfs.call.content[2]
    /\ sys = NewSys

\* the ids of the tool calls of an assistant message of the session, in
\* their order
CallIdsOf(message) ==
    LET tool_calls == Subscript(message, Key("tool_calls")).val
    IN  [k \in 1..Len(tool_calls) |-> Subscript(tool_calls[k], Key("id")).val]

\* C34: whenever the chat session is about to call the model, every
\* assistant message of the history is followed by the tool messages of its
\* tool calls, one for each call and in the order of the calls, and then by
\* nothing or the next assistant message (no user turn in between); an
\* assistant message without tool calls is followed by the user's next
\* message: the user was prompted exactly after the turns that produced no
\* tool message.
C34_PromptOnlyWithoutToolResults ==
    session.pc = "GET_RESPONSE" =>
        \A i \in 1..Len(session.history) :
            RoleOf(session.history[i]) = <<"assistant">> =>
                LET h == session.history
                    ids == CallIdsOf(h[i])
                    n == Len(ids)
                IN  /\ i + n <= Len(h)
                    /\ \A k \in 1..n :
                          /\ RoleOf(h[i + k]) = <<"tool">>
                          /\ ToolCallIdOf(h[i + k]) = ids[k]
                    /\ IF n = 0
                       THEN /\ i + 1 <= Len(h)
                            /\ RoleOf(h[i + 1]) = <<"user">>
                       ELSE \/ i + n = Len(h)
                            \/ RoleOf(h[i + n + 1]) = <<"assistant">>

\* a turn with two tool calls has been answered by its two tool messages, the
\* next turn had no tool call and the user has been asked for the next line
C34_Witness ==
    /\ session.pc = "GET_RESPONSE"
    /\ session.requests = 2
    /\ Len(session.history) = 7
    /\ RoleOf(session.history[3]) = <<"assistant">>
    /\ RoleOf(session.history[4]) = <<"tool">>
    /\ RoleOf(session.history[5]) = <<"tool">>
    /\ RoleOf(session.history[6]) = <<"assistant">>
    /\ RoleOf(session.history[7]) = <<"user">>

\* the servers of the list from the last to the first
ReversedServers == [i \in 1..Len(ServerTools) |-> Len(ServerTools) + 1 - i]

\* C35: however ChatSession.start has ended (a server failed to initialize,
\* the user interrupted, an exception left the loop), cleanup has been
\* called on every server, from the last of the list to the first, also
\* after the servers whose cleanup failed; when a server failed to
\* initialize this has happened twice.
C35_CleanupReachesEveryServer ==
    /\ session.pc \in {"RETURNED", "RAISED"} =>
          /\ session.cleaned
          /\ session.cleanups \in {ReversedServers, ReversedServers \o ReversedServers}
          /\ session.warnings \subseteq 1..Len(ServerTools)
    /\ session.pc \notin {"RETURNED", "RAISED"} => session.cleanups = <<>>

\* an exception has left the loop and the cleanup of the last server has
\* failed: the first server has been cleaned up after it
C35_Witness ==
    /\ session.pc = "RAISED"
    /\ session.error # NoneValue
    /\ session.requests > 0
    /\ Len(ServerTools) \in session.warnings
    /\ session.cleanups = ReversedServers

\* the user has interrupted a tool and the cleanup of every server has failed
C35_InterruptWitness ==
    /\ session.pc = "RETURNED"
    /\ session.signal = KeyboardInterrupt
    /\ session.executed # <<>>
    /\ session.warnings = 1..Len(ServerTools)
    /\ session.cleanups = ReversedServers

\* a server has failed to initialize: the servers have been cleaned up twice
C35_InitWitness ==
    /\ session.pc = "RETURNED"
    /\ session.history = <<>>
    /\ session.cleanups = ReversedServers \o ReversedServers

\* C36: after compress_messages every tool message that is left stands
\* after an assistant message that is left and still holds the tool call
\* with the id the tool message answers, also when the last message of the
\* history is a tool answer.
C36_ToolAnswersKeepTheirCalls ==
    messages.pc = "COMPRESSED" =>
        \A j \in 1..Len(messages.history) :
            messages.history[j].role = "tool" =>
                \E i \in 1..(j - 1) :
                    /\ messages.history[i].role = "assistant"
                    /\ \E k \in 1..Len(messages.history[i].tool_calls) :
                          messages.history[i].tool_calls[k].id
                              = messages.history[j].tool_call_id

\* the names of the virtual files, and the keys of the parts of a file
NamesOf(files) == { files[i][1] : i \in 1..Len(files) }
ReadingTools ==
    { "get_virtual_file_content", "delete_part_of_virtual_file", "list_virtual_files",
      "check_syntax", "run_clingo" }

\* C37: the names in the store, which list_virtual_files reports, are the
\* names that were there before a call and the name a create or write was
\* called with: reading, deleting a part of, syntax-checking or solving a
\* name that does not exist adds no name.  These tools and list_virtual_files
\* leave every part of every file as it was, but for the one part
\* delete-part is called with, which is gone if it was there.
C37_OnlyCreateAndWriteAddNames ==
    vfs.calls > 0 =>
        /\ NamesOf(vfs.files)
             = NamesOf(vfs.before)
               \cup (IF vfs.call.tool \in {"create_virtual_file", "write_part_of_virtual_file"}
                     THEN {vfs.call.filename} ELSE {})
        /\ vfs.call.tool = "list_virtual_files" =>
              /\ { name.val : name \in
                      { Subscript(vfs.answer, Key("files")).val[i] :
                          i \in 1..Len(Subscript(vfs.answer, Key("files")).val) } }
                   = NamesOf(vfs.files)
              /\ Len(Subscript(vfs.answer, Key("files")).val) = Len(vfs.files)
        /\ vfs.call.tool \in ReadingTools =>
              \A name \in NamesOf(vfs.before) :
                 LET old == Get(vfs.before, name)
                     new == Get(vfs.files, name)
                     gone == IF /\ vfs.call.tool = "delete_part_of_virtual_file"
                                /\ vfs.call.filename = name
                             THEN {PyStr(vfs.call.part_index)} ELSE {}
                 IN /\ NamesOf(new) = NamesOf(old) \ gone
                    /\ \A key \in NamesOf(new) : Get(new, key) = Get(old, key)

\* run_clingo has been asked to solve a name that is no virtual file while
\* another file has a part
C37_Witness ==
    /\ vfs.call.tool = "run_clingo"
    /\ \E i \in 1..Len(vfs.call.content) : ~Has(vfs.before, vfs.call.content[i])
    /\ \E name \in NamesOf(vfs.files) : Get(vfs.files, name) # <<>>

\* delete-part has been called for a name that is no virtual file while
\* another file has a part
C37_DeleteMissingWitness ==
    /\ vfs.call.tool = "delete_part_of_virtual_file"
    /\ ~Has(vfs.before, vfs.call.filename)
    /\ \E name \in NamesOf(vfs.files) : Get(vfs.files, name) # <<>>

\* delete-part has taken one of the two parts of a file
C37_DeletePartWitness ==
    /\ vfs.call.tool = "delete_part_of_virtual_file"
    /\ Has(vfs.before, vfs.call.filename)
    /\ Len(Get(vfs.before, vfs.call.filename)) = 2
    /\ Len(Get(vfs.files, vfs.call.filename)) = 1

\* list_virtual_files has reported two names
C37_ListWitness ==
    /\ vfs.call.tool = "list_virtual_files"
    /\ Len(Subscript(vfs.answer, Key("files")).val) = 2

\* C38: write_virtual_file_to_disk for a name that is no virtual file
\* returns an error result and leaves the virtual files and the disk as
\* they were: no file of that name is created or emptied.
C38_MissingFileChangesNothing ==
    [][(/\ vfs'.calls = vfs.calls + 1
        /\ vfs'.call.tool = "write_virtual_file_to_disk"
        /\ ~Has(vfs.files, vfs'.call.filename))
       => /\ ~IsExc(Subscript(vfs'.answer, Key("error")))
          /\ vfs'.files = vfs.files
          /\ vfs'.disk = vfs.disk]_vars

====
